---- MODULE Spec2Model ----
(***************************************************************************)
(* Token ledger and prediction-market settlement of ApeHub.                *)
(*                                                                         *)
(* The durable store is PostgreSQL at its default isolation level, READ    *)
(* COMMITTED.  A statement sent through `pool.query` commits on its own; a *)
(* handler that opens BEGIN ... COMMIT on a client keeps its writes in a   *)
(* private overlay (tx) until COMMIT, holds the row locks it took (SELECT  *)
(* ... FOR UPDATE, UPDATE, INSERT) until COMMIT or ROLLBACK, and reads the *)
(* committed rows plus its own overlay.  A statement that needs a row lock *)
(* another transaction holds waits: its action is disabled.                *)
(*                                                                         *)
(* Each statement a handler awaits is one step, together with the checks   *)
(* the handler makes on its result; other requests run between the steps.  *)
(* Amounts are tokens, multipliers are DECIMAL(4,2) kept in hundredths,    *)
(* timestamps are ticks of a bounded clock.                                *)
(***************************************************************************)
EXTENDS Integers, FiniteSets, Sequences, TLC

\* ---------------------------------------------------------------- bounds
NumProcs == 2
MaxTime == 3
MaxDeliveries == 1

\* deliveries of one payment-completion event where the claim is about repeats
MaxRepeats == 2
MaxPayouts == 1
MaxReviews == 2

Procs == 1..NumProcs
Users == {"u1", "u2"}
Markets == {"m1", "m2"}
Tickers == {"k1"}
Positions == {"yes", "no"}
PayoutIds == 1..MaxPayouts
Sessions == {"s1", "s2"}
Events == {"e1"}

\* marketsCache, and eventMarketsCache by event ticker
CacheKeys == {"markets"} \cup Events

\* ------------------------------------------------------ program constants
MIN_PAYOUT_TOKENS == 1000
KALSHI_MIN_BET == 10

\* max_bet of a mirrored market as transformKalshiMarket lists it
KALSHI_MAX_BET == 10000

\* CACHE_TTL = 5 * 60 * 1000 ms, in minutes
CACHE_TTL == 5
DEFAULT_MIN_BET == 10
DEFAULT_MAX_BET == 10000
DEFAULT_YES_MULTIPLIER == 190
ADMIN_YES_MULTIPLIER == 200
StarterPack == 250
PopularPack == 1000

\* ------------------------------------------------------------------ state
VARIABLES
  user_tokens,      \* table user_tokens: email -> row
  predictions,      \* table predictions: id -> row
  user_bets,        \* table user_bets: <<email, prediction id>> -> row
  kalshi_bets,      \* table kalshi_bets: <<email, ticker>> -> row
  payout_requests,  \* table payout_requests: id -> row
  token_purchases,  \* table token_purchases: checkout session -> row
  venue,            \* the external venue's market per ticker
  now,              \* the clock
  deliveries,       \* payment-completion events delivered so far
  reviews,          \* payout reviews handled so far
  cache,            \* marketsCache and eventMarketsCache of the mirror, by key
  pc,               \* per request slot: where the handler is
  req,              \* per request slot: the request's arguments
  locks,            \* per request slot: row locks its transaction holds
  tx,               \* per request slot: uncommitted writes of its transaction
  todo,             \* per request slot: markets the outer SELECT returned, still to do
  rows,             \* per request slot: wagers the inner SELECT returned, still to do
  cur,              \* per request slot: the row the loop is processing
  result            \* the response sent by the step just taken, if any

tables == <<user_tokens, predictions, user_bets, kalshi_bets, payout_requests,
            token_purchases>>
world == <<venue, now, deliveries, reviews, cache>>
slots == <<pc, req, locks, tx, todo, rows, cur>>
vars == <<user_tokens, predictions, user_bets, kalshi_bets, payout_requests,
          token_purchases, venue, now, deliveries, reviews, cache,
          pc, req, locks, tx, todo, rows, cur, result>>

\* --------------------------------------------------------------- helpers
Empty == [x \in {} |-> 0]

\* an empty marketsCache (null) or eventMarketsCache[eventTicker] (undefined)
NoEntry == [present |-> FALSE, time |-> 0, markets |-> Empty, event |-> "-"]

Put(f, k, v) == [x \in (DOMAIN f) \cup {k} |-> IF x = k THEN v ELSE f[x]]

Merge(table, over) ==
  [k \in DOMAIN table |-> IF k \in DOMAIN over THEN over[k] ELSE table[k]]

NoTx == [acct |-> Empty, pred |-> Empty, bets |-> Empty, kbets |-> Empty, pay |-> Empty]

NoReq == [op |-> "-", email |-> "-", predictionId |-> "-", ticker |-> "-",
          position |-> "-", amount |-> 0, outcome |-> "-", payoutId |-> 0,
          status |-> "-", session |-> "-", at |-> 0, yes_ask |-> 0,
          open |-> "-", close |-> "-", raw |-> <<>>, tradingDate |-> 0]

NoBet == [status |-> "none", position |-> "-", tokens_wagered |-> 0,
          potential_payout |-> 0, payout_multiplier |-> 0, tokens_won |-> 0]

NoRow == "-"

NoResult == [op |-> "-", code |-> "-", at |-> "-"]

NoPayout == [status |-> "none", user_email |-> "-", tokens_amount |-> 0]

NoPurchase == [status |-> "none", user_email |-> "-", tokens_amount |-> 0]

\* no user_tokens row for the email
NoAccount == [balance |-> 0, total_purchased |-> 0, total_won |-> 0, total_lost |-> 0,
              present |-> FALSE]

\* INSERT INTO user_tokens (user_email, balance) VALUES ($1, 0)
NewAccount == [NoAccount EXCEPT !.present = TRUE]

\* an account after the purchase of the popular pack
Funded == [NewAccount EXCEPT !.balance = PopularPack, !.total_purchased = PopularPack]

\* Math.floor(tokensWagered * multiplier), multiplier in hundredths
Floor(tokensWagered, multiplier) == (tokensWagered * multiplier) \div 100

\* a row as the transaction of slot p sees it
Acct(p, u) == IF u \in DOMAIN tx[p].acct THEN tx[p].acct[u] ELSE user_tokens[u]
Pred(p, m) == IF m \in DOMAIN tx[p].pred THEN tx[p].pred[m] ELSE predictions[m]
Bet(p, k) == IF k \in DOMAIN tx[p].bets THEN tx[p].bets[k] ELSE user_bets[k]
KBet(p, k) == IF k \in DOMAIN tx[p].kbets THEN tx[p].kbets[k] ELSE kalshi_bets[k]

\* no statement ever waits for a row lock
NeverWaits(p, L) == TRUE

\* no other transaction holds the row lock L
Free(p, L) == \A q \in Procs \ {p} : L \notin locks[q]

\* ------------------------------------------------------------------- Init
InitPredictions ==
  [m \in Markets |->
     IF m = "m1"
     THEN \* a generated daily market (createDailyPrediction)
          [status |-> "upcoming", outcome |-> "null", subcategory |-> "close_green",
           ticker |-> "TSLA", opens_at |-> 1, closes_at |-> 2, resolves_at |-> 3,
           yes_payout_multiplier |-> DEFAULT_YES_MULTIPLIER,
           no_payout_multiplier |-> DEFAULT_YES_MULTIPLIER,
           min_bet |-> DEFAULT_MIN_BET, max_bet |-> DEFAULT_MAX_BET,
           total_yes_tokens |-> 0, total_no_tokens |-> 0, total_bettors |-> 0]
     ELSE \* a market made by /admin/create with the default multipliers
          [status |-> "open", outcome |-> "null", subcategory |-> "null",
           ticker |-> "null", opens_at |-> 0, closes_at |-> 2, resolves_at |-> 3,
           yes_payout_multiplier |-> ADMIN_YES_MULTIPLIER,
           no_payout_multiplier |-> ADMIN_YES_MULTIPLIER,
           min_bet |-> DEFAULT_MIN_BET, max_bet |-> DEFAULT_MAX_BET,
           total_yes_tokens |-> 0, total_no_tokens |-> 0, total_bettors |-> 0]]

\* the store with the given markets in it and no request in flight
InitState(markets, accounts, bets, t) ==
  /\ user_tokens = accounts
  /\ predictions = markets
  /\ user_bets = bets
  /\ kalshi_bets = [k \in Users \X Tickers |-> NoBet]
  /\ payout_requests = [i \in PayoutIds |-> NoPayout]
  /\ token_purchases = [c \in Sessions |->
        IF c = "s1"
        THEN [status |-> "pending", user_email |-> "u1", tokens_amount |-> StarterPack]
        ELSE NoPurchase]
  /\ venue = [k \in Tickers |-> [status |-> "open", result |-> "", yes_ask |-> 40]]
  /\ now = t
  /\ deliveries = 0
  /\ reviews = 0
  /\ cache = [k \in CacheKeys |-> NoEntry]
  /\ pc = [p \in Procs |-> "idle"]
  /\ req = [p \in Procs |-> NoReq]
  /\ locks = [p \in Procs |-> {}]
  /\ tx = [p \in Procs |-> NoTx]
  /\ todo = [p \in Procs |-> {}]
  /\ rows = [p \in Procs |-> {}]
  /\ cur = [p \in Procs |-> NoRow]
  /\ result = NoResult

\* the store at time 0 with the given markets and accounts and no wager
InitStore(markets, accounts) ==
  InitState(markets, accounts, [k \in Users \X Markets |-> NoBet], 0)

\* every user has an account and has bought the popular pack
InitWith(markets) == InitStore(markets, [u \in Users |-> Funded])

Init == InitWith(InitPredictions)

\* ------------------------------------------------- transaction plumbing
\* the response is sent and the slot is free again; result shows the response
\* to the next state only: the handler, what it answered, the statement it ended at
Finish(p, r) ==
  /\ pc' = [pc EXCEPT ![p] = "idle"]
  /\ req' = [req EXCEPT ![p] = NoReq]
  /\ result' = [op |-> req[p].op, code |-> r, at |-> pc[p]]
  /\ todo' = [todo EXCEPT ![p] = {}]
  /\ rows' = [rows EXCEPT ![p] = {}]
  /\ cur' = [cur EXCEPT ![p] = NoRow]

\* COMMIT: the overlay becomes the committed rows and the locks are released
Commit(p, r) ==
  /\ user_tokens' = Merge(user_tokens, tx[p].acct)
  /\ predictions' = Merge(predictions, tx[p].pred)
  /\ user_bets' = Merge(user_bets, tx[p].bets)
  /\ kalshi_bets' = Merge(kalshi_bets, tx[p].kbets)
  /\ payout_requests' = Merge(payout_requests, tx[p].pay)
  /\ UNCHANGED token_purchases
  /\ tx' = [tx EXCEPT ![p] = NoTx]
  /\ locks' = [locks EXCEPT ![p] = {}]
  /\ Finish(p, r)
  /\ UNCHANGED world

\* the statements ran on the pool instead of the client: nothing to roll back
RollbackKeeps(p, r) == Commit(p, r)

\* ROLLBACK: the overlay is dropped and the locks released
Rollback(p, r) ==
  /\ tx' = [tx EXCEPT ![p] = NoTx]
  /\ locks' = [locks EXCEPT ![p] = {}]
  /\ Finish(p, r)
  /\ UNCHANGED <<tables, world>>

\* a request arrives and the pool hands it its first free client
FirstFree(p) == pc[p] = "idle" /\ \A q \in Procs : q < p => pc[q] # "idle"

Begin(p, r, first) ==
  /\ FirstFree(p)
  /\ pc' = [pc EXCEPT ![p] = first]
  /\ req' = [req EXCEPT ![p] = r]
  /\ result' = NoResult
  /\ UNCHANGED <<tables, world, locks, tx, todo, rows, cur>>

\* a request the handler answers before its first await: nothing is read or written
Refuse(p, op, code) ==
  /\ FirstFree(p)
  /\ result' = [op |-> op, code |-> code, at |-> "idle"]
  /\ UNCHANGED <<tables, world, slots>>

Tick ==
  /\ now < MaxTime
  /\ now' = now + 1
  /\ result' = NoResult
  /\ UNCHANGED <<tables, venue, deliveries, reviews, cache, slots>>


\* a transaction in flight fails (lock timeout, deadlock victim, lost
\* connection): the handler's catch block rolls back
InTx == {"bet_lock", "bet_dup", "bet_acct", "bet_debit", "bet_insert", "bet_volume",
         "bet_commit", "kbet_fetch", "kbet_acct", "kbet_dup", "kbet_debit", "kbet_insert",
         "kbet_commit", "pay_acct", "pay_debit", "pay_insert", "pay_commit",
         "pb_select", "pb_bet", "pb_acct", "pb_commit",
         "res_lock", "res_select", "res_bet", "res_acct", "res_commit"}

Fail(p) ==
  /\ pc[p] \in InTx
  /\ Rollback(p, "PersistenceFailure")

\* ------------------------------------------- POST /api/predictions/bet
BetRequest(p, email, predictionId, position, amount) ==
  Begin(p, [NoReq EXCEPT !.op = "bet", !.email = email, !.predictionId = predictionId,
                         !.position = position, !.amount = amount], "bet_lock")

\* new Date() > new Date(prediction.closes_at)
BettingPeriodEnded(t, closes_at) == t > closes_at

\* the bounds themselves refused
OutOfBoundsStrict(row, amount) == amount <= row.min_bet \/ amount >= row.max_bet

\* tokensWagered < prediction.min_bet, tokensWagered > prediction.max_bet
OutOfBounds(row, amount) == amount < row.min_bet \/ amount > row.max_bet

\* SELECT * FROM predictions WHERE id = $1 FOR UPDATE, then the checks on the row
BetLockMarket(p) ==
  LET m == req[p].predictionId
      prediction == Pred(p, m)
  IN /\ pc[p] = "bet_lock"
     /\ Free(p, <<"pred", m>>)
     /\ IF prediction.status # "open" \/ BettingPeriodEnded(now, prediction.closes_at)
        THEN Rollback(p, "MarketClosed")
        ELSE IF OutOfBounds(prediction, req[p].amount)
        THEN Rollback(p, "OutOfBounds")
        ELSE /\ locks' = [locks EXCEPT ![p] = @ \cup {<<"pred", m>>}]
             /\ pc' = [pc EXCEPT ![p] = "bet_dup"]
             /\ result' = NoResult
             /\ UNCHANGED <<tables, world, req, tx, todo, rows, cur>>

\* the duplicate check left out
ExistingBetNever(row) == FALSE

\* existingBet.rows.length > 0
ExistingBet(row) == row.status # "none"

\* SELECT * FROM user_bets WHERE prediction_id = $1 AND user_email = $2
BetCheckExisting(p) ==
  LET k == <<req[p].email, req[p].predictionId>>
  IN /\ pc[p] = "bet_dup"
     /\ IF ExistingBet(Bet(p, k))
        THEN Rollback(p, "DuplicateBet")
        ELSE /\ pc' = [pc EXCEPT ![p] = "bet_acct"]
             /\ result' = NoResult
             /\ UNCHANGED <<tables, world, req, locks, tx, todo, rows, cur>>

\* the check no debit is ever made without
InsufficientNever(row, amount) == FALSE

\* account.balance < tokensWagered
InsufficientFunds(row, amount) == row.balance < amount

\* SELECT * FROM user_tokens WHERE user_email = $1 FOR UPDATE, then the balance check
BetLockAccount(p) ==
  LET u == req[p].email
  IN /\ pc[p] = "bet_acct"
     /\ Free(p, <<"acct", u>>)
     /\ IF ~Acct(p, u).present
        THEN Rollback(p, "NotFound")
        ELSE IF InsufficientFunds(Acct(p, u), req[p].amount)
        THEN Rollback(p, "InsufficientFunds")
        ELSE /\ locks' = [locks EXCEPT ![p] = @ \cup {<<"acct", u>>}]
             /\ pc' = [pc EXCEPT ![p] = "bet_debit"]
             /\ result' = NoResult
             /\ UNCHANGED <<tables, world, req, tx, todo, rows, cur>>

\* UPDATE user_tokens SET balance = balance - $1
Debit(row, amount) == [row EXCEPT !.balance = @ - amount]

\* the row INSERT INTO user_bets adds
NewBet(position, tokensWagered, multiplier) ==
  [status |-> "active", position |-> position, tokens_wagered |-> tokensWagered,
   potential_payout |-> Floor(tokensWagered, multiplier),
   payout_multiplier |-> multiplier, tokens_won |-> 0]

\* the volume without the bettor count
AddVolumeOnly(row, position, tokensWagered) ==
  IF position = "yes"
  THEN [row EXCEPT !.total_yes_tokens = @ + tokensWagered]
  ELSE [row EXCEPT !.total_no_tokens = @ + tokensWagered]

\* the stake added to the yes column whatever the position
AddVolumeToYes(row, position, tokensWagered) ==
  [row EXCEPT !.total_yes_tokens = @ + tokensWagered, !.total_bettors = @ + 1]

\* UPDATE predictions SET ${volumeColumn} = ${volumeColumn} + $1, total_bettors + 1
AddVolume(row, position, tokensWagered) ==
  IF position = "yes"
  THEN [row EXCEPT !.total_yes_tokens = @ + tokensWagered, !.total_bettors = @ + 1]
  ELSE [row EXCEPT !.total_no_tokens = @ + tokensWagered, !.total_bettors = @ + 1]

\* UPDATE user_tokens SET balance = balance - $1 WHERE user_email = $2
BetDebit(p) ==
  LET u == req[p].email
  IN /\ pc[p] = "bet_debit"
     /\ tx' = [tx EXCEPT ![p].acct = Put(@, u, Debit(Acct(p, u), req[p].amount))]
     /\ pc' = [pc EXCEPT ![p] = "bet_insert"]
     /\ result' = NoResult
     /\ UNCHANGED <<tables, world, req, locks, todo, rows, cur>>

\* INSERT INTO user_bets: waits for a pending insert of the same key and fails
\* on the unique index idx_user_bets_unique when the key is committed
BetInsert(p) ==
  LET u == req[p].email
      m == req[p].predictionId
      k == <<u, m>>
      prediction == Pred(p, m)
      multiplier == IF req[p].position = "yes" THEN prediction.yes_payout_multiplier
                    ELSE prediction.no_payout_multiplier
  IN /\ pc[p] = "bet_insert"
     /\ Free(p, <<"bet", u, m>>)
     /\ IF user_bets[k].status # "none"
        THEN Rollback(p, "UniqueViolation")
        ELSE /\ tx' = [tx EXCEPT ![p].bets = Put(@, k, NewBet(req[p].position, req[p].amount, multiplier))]
             /\ locks' = [locks EXCEPT ![p] = @ \cup {<<"bet", u, m>>}]
             /\ pc' = [pc EXCEPT ![p] = "bet_volume"]
             /\ result' = NoResult
             /\ UNCHANGED <<tables, world, req, todo, rows, cur>>

\* UPDATE predictions SET total_yes_tokens / total_no_tokens, total_bettors
BetVolume(p) ==
  LET m == req[p].predictionId
  IN /\ pc[p] = "bet_volume"
     /\ tx' = [tx EXCEPT ![p].pred = Put(@, m, AddVolume(Pred(p, m), req[p].position, req[p].amount))]
     /\ pc' = [pc EXCEPT ![p] = "bet_commit"]
     /\ result' = NoResult
     /\ UNCHANGED <<tables, world, req, locks, todo, rows, cur>>

BetCommit(p) ==
  /\ pc[p] = "bet_commit"
  /\ Commit(p, "ok")

\* ------------------------------------ POST /api/predictions/:id/resolve
ResolveRequest(p, id, outcome) ==
  Begin(p, [NoReq EXCEPT !.op = "resolve", !.predictionId = id, !.outcome = outcome],
        "res_lock")

\* UPDATE predictions SET status = 'resolved', outcome = $1
MarkResolved(row, outcome) == [row EXCEPT !.status = "resolved", !.outcome = outcome]

\* the guard left out
AlreadyResolvedNever(row) == FALSE

\* prediction.status === 'resolved'
AlreadyResolved(row) == row.status = "resolved"

\* SELECT ... FOR UPDATE, the already-resolved guard, the UPDATE of the market
ResolveLockMarket(p) ==
  LET m == req[p].predictionId
  IN /\ pc[p] = "res_lock"
     /\ Free(p, <<"pred", m>>)
     /\ IF AlreadyResolved(Pred(p, m))
        THEN Rollback(p, "AlreadyResolved")
        ELSE /\ locks' = [locks EXCEPT ![p] = @ \cup {<<"pred", m>>}]
             /\ tx' = [tx EXCEPT ![p].pred = Put(@, m, MarkResolved(Pred(p, m), req[p].outcome))]
             /\ pc' = [pc EXCEPT ![p] = "res_select"]
             /\ result' = NoResult
             /\ UNCHANGED <<tables, world, req, todo, rows, cur>>

\* SELECT * FROM user_bets WHERE prediction_id = $1 AND status = 'active'
ActiveBets(p, m) == {u \in Users : Bet(p, <<u, m>>).status = "active"}

ResolveSelectBets(p) ==
  /\ pc[p] = "res_select"
  /\ rows' = [rows EXCEPT ![p] = ActiveBets(p, req[p].predictionId)]
  /\ pc' = [pc EXCEPT ![p] = IF ActiveBets(p, req[p].predictionId) = {}
                             THEN "res_commit" ELSE "res_bet"]
  /\ result' = NoResult
  /\ UNCHANGED <<tables, world, req, locks, tx, todo, cur>>

\* the status left out of the UPDATE
SettleBetStaysActive(bet, outcome) ==
  [bet EXCEPT !.tokens_won = IF bet.position = outcome THEN bet.potential_payout ELSE 0]

\* tokens_won set to the potential payout, won or lost
SettleBetPaysAlways(bet, outcome) ==
  [bet EXCEPT !.status = IF bet.position = outcome THEN "won" ELSE "lost",
              !.tokens_won = bet.potential_payout]

\* UPDATE user_bets SET status = $1, tokens_won = $2 WHERE id = $3
SettleBet(bet, outcome) ==
  IF bet.position = outcome
  THEN [bet EXCEPT !.status = "won", !.tokens_won = bet.potential_payout]
  ELSE [bet EXCEPT !.status = "lost", !.tokens_won = 0]

\* total_won raised by the gross payout instead of the net profit
SettleAccountGross(row, bet, outcome) ==
  IF bet.position = outcome
  THEN [row EXCEPT !.balance = @ + bet.potential_payout,
                   !.total_won = @ + bet.potential_payout]
  ELSE [row EXCEPT !.total_lost = @ + bet.tokens_wagered]

\* UPDATE user_tokens: the winner's credit or the loser's total_lost
SettleAccount(row, bet, outcome) ==
  IF bet.position = outcome
  THEN [row EXCEPT !.balance = @ + bet.potential_payout,
                   !.total_won = @ + (bet.potential_payout - bet.tokens_wagered)]
  ELSE [row EXCEPT !.total_lost = @ + bet.tokens_wagered]

\* one iteration of the loop, first statement; the rows come in no fixed order
ResolveUpdateBet(p) ==
  /\ pc[p] = "res_bet"
  /\ \E u \in rows[p] :
       LET k == <<u, req[p].predictionId>>
       IN /\ Free(p, <<"bet", k[1], k[2]>>)
          /\ tx' = [tx EXCEPT ![p].bets = Put(@, k, SettleBet(Bet(p, k), req[p].outcome))]
          /\ locks' = [locks EXCEPT ![p] = @ \cup {<<"bet", k[1], k[2]>>}]
          /\ cur' = [cur EXCEPT ![p] = u]
          /\ rows' = [rows EXCEPT ![p] = @ \ {u}]
          /\ pc' = [pc EXCEPT ![p] = "res_acct"]
          /\ result' = NoResult
          /\ UNCHANGED <<tables, world, req, todo>>

\* one iteration of the loop, second statement
ResolveUpdateAccount(p) ==
  LET u == cur[p]
      bet == Bet(p, <<u, req[p].predictionId>>)
  IN /\ pc[p] = "res_acct"
     /\ Free(p, <<"acct", u>>)
     /\ tx' = [tx EXCEPT ![p].acct = Put(@, u, SettleAccount(Acct(p, u), bet, req[p].outcome))]
     /\ locks' = [locks EXCEPT ![p] = @ \cup {<<"acct", u>>}]
     /\ cur' = [cur EXCEPT ![p] = NoRow]
     /\ pc' = [pc EXCEPT ![p] = IF rows[p] = {} THEN "res_commit" ELSE "res_bet"]
     /\ result' = NoResult
     /\ UNCHANGED <<tables, world, req, todo, rows>>

ResolveCommit(p) ==
  /\ pc[p] = "res_commit"
  /\ Commit(p, "ok")

\* ----------------------------- updatePredictionStatuses (the status sweep)
SweepRequest(p) ==
  Begin(p, [NoReq EXCEPT !.op = "sweep", !.at = now], "sweep_open")

ShouldOpen(row, t) == row.status = "upcoming" /\ row.opens_at <= t /\ row.closes_at > t

\* a market that closes at t left open by the sweep at t
ShouldCloseLate(row, t) == row.status = "open" /\ row.closes_at < t

ShouldClose(row, t) == row.status = "open" /\ row.closes_at <= t

\* UPDATE predictions SET status = 'open' WHERE status = 'upcoming' AND ...
SweepOpen(p) ==
  /\ pc[p] = "sweep_open"
  /\ \A m \in Markets : ShouldOpen(predictions[m], req[p].at) => Free(p, <<"pred", m>>)
  /\ predictions' = [m \in Markets |->
        IF ShouldOpen(predictions[m], req[p].at)
        THEN [predictions[m] EXCEPT !.status = "open"] ELSE predictions[m]]
  /\ pc' = [pc EXCEPT ![p] = "sweep_close"]
  /\ result' = NoResult
  /\ UNCHANGED <<user_tokens, user_bets, kalshi_bets, payout_requests, token_purchases,
                 world, req, locks, tx, todo, rows, cur>>

\* UPDATE predictions SET status = 'closed' WHERE status = 'open' AND closes_at <= $1
SweepClose(p) ==
  /\ pc[p] = "sweep_close"
  /\ \A m \in Markets : ShouldClose(predictions[m], req[p].at) => Free(p, <<"pred", m>>)
  /\ predictions' = [m \in Markets |->
        IF ShouldClose(predictions[m], req[p].at)
        THEN [predictions[m] EXCEPT !.status = "closed"] ELSE predictions[m]]
  /\ Finish(p, "ok")
  /\ UNCHANGED <<user_tokens, user_bets, kalshi_bets, payout_requests, token_purchases,
                 world, locks, tx>>

\* a statement of the sweep throws: updatePredictionStatuses has no catch, what
\* the first statement did stays
SweepFail(p) ==
  /\ pc[p] \in {"sweep_open", "sweep_close"}
  /\ Finish(p, "PersistenceFailure")
  /\ UNCHANGED <<tables, world, locks, tx>>

\* ------------------------------------------------ the external venue
\* the venue closes a market, determines its result, then finalizes it
VenueClose(k) ==
  /\ venue[k].status = "open"
  /\ venue' = [venue EXCEPT ![k].status = "closed"]
  /\ result' = NoResult
  /\ UNCHANGED <<tables, now, deliveries, reviews, cache, slots>>

VenueDetermine(k, r) ==
  /\ venue[k].status = "closed"
  /\ venue' = [venue EXCEPT ![k].status = "determined", ![k].result = r]
  /\ result' = NoResult
  /\ UNCHANGED <<tables, now, deliveries, reviews, cache, slots>>

\* the same three steps between two looks at the venue
VenueSettle(k, r) ==
  /\ venue[k].status = "open"
  /\ venue' = [venue EXCEPT ![k].status = "finalized", ![k].result = r]
  /\ result' = NoResult
  /\ UNCHANGED <<tables, now, deliveries, reviews, cache, slots>>

VenueFinalize(k) ==
  /\ venue[k].status = "determined"
  /\ venue' = [venue EXCEPT ![k].status = "finalized"]
  /\ result' = NoResult
  /\ UNCHANGED <<tables, now, deliveries, reviews, cache, slots>>

\* ------------------------------------------------ POST /api/kalshi/bet
KalshiBetRequest(p, email, marketTicker, position, amount) ==
  Begin(p, [NoReq EXCEPT !.op = "kbet", !.email = email, !.ticker = marketTicker,
                         !.position = position, !.amount = amount], "kbet_fetch")

\* yesPrice = yes_ask / 100 (0.5 without an ask), noPrice = 1 - yesPrice, in cents
KalshiPrice(market, position) ==
  LET yesPrice == IF market.yes_ask # 0 THEN market.yes_ask ELSE 50
  IN IF position = "yes" THEN yesPrice ELSE 100 - yesPrice

\* Math.floor(tokensWagered * multiplier) with multiplier = 1 / price (2 at price 0)
KalshiPayout(tokensWagered, price) ==
  IF price > 0 THEN (tokensWagered * 100) \div price ELSE tokensWagered * 2

\* multiplier.toFixed(2), in hundredths
KalshiMultiplier(price) ==
  IF price > 0 THEN (20000 + price) \div (2 * price) ELSE 200

\* tokensWagered < 10 is refused before BEGIN; then
\* kalshiRequest('GET', `/markets/${marketTicker}`) and the status check
KalshiBetFetch(p) ==
  /\ pc[p] = "kbet_fetch"
  /\ IF req[p].amount < KALSHI_MIN_BET
     THEN Rollback(p, "OutOfBounds")
     ELSE IF venue[req[p].ticker].status \notin {"open", "active"}
     THEN Rollback(p, "MarketClosed")
     ELSE /\ req' = [req EXCEPT ![p].yes_ask = venue[req[p].ticker].yes_ask]
          /\ pc' = [pc EXCEPT ![p] = "kbet_acct"]
          /\ result' = NoResult
          /\ UNCHANGED <<tables, world, locks, tx, todo, rows, cur>>

\* SELECT * FROM user_tokens WHERE user_email = $1 FOR UPDATE, then the balance check
KalshiBetLockAccount(p) ==
  LET u == req[p].email
  IN /\ pc[p] = "kbet_acct"
     /\ Free(p, <<"acct", u>>)
     /\ IF ~Acct(p, u).present
        THEN Rollback(p, "NotFound")
        ELSE IF InsufficientFunds(Acct(p, u), req[p].amount)
        THEN Rollback(p, "InsufficientFunds")
        ELSE /\ locks' = [locks EXCEPT ![p] = @ \cup {<<"acct", u>>}]
             /\ pc' = [pc EXCEPT ![p] = "kbet_dup"]
             /\ result' = NoResult
             /\ UNCHANGED <<tables, world, req, tx, todo, rows, cur>>

\* SELECT * FROM kalshi_bets WHERE kalshi_ticker = $1 AND user_email = $2
KalshiBetCheckExisting(p) ==
  /\ pc[p] = "kbet_dup"
  /\ IF ExistingBet(KBet(p, <<req[p].email, req[p].ticker>>))
     THEN Rollback(p, "DuplicateBet")
     ELSE /\ pc' = [pc EXCEPT ![p] = "kbet_debit"]
          /\ result' = NoResult
          /\ UNCHANGED <<tables, world, req, locks, tx, todo, rows, cur>>

\* UPDATE user_tokens SET balance = balance - $1
KalshiBetDebit(p) ==
  LET u == req[p].email
  IN /\ pc[p] = "kbet_debit"
     /\ tx' = [tx EXCEPT ![p].acct = Put(@, u, Debit(Acct(p, u), req[p].amount))]
     /\ pc' = [pc EXCEPT ![p] = "kbet_insert"]
     /\ result' = NoResult
     /\ UNCHANGED <<tables, world, req, locks, todo, rows, cur>>

\* the row INSERT INTO kalshi_bets adds, at the odds fetched for this request
NewKalshiBet(position, tokensWagered, price) ==
  [status |-> "active", position |-> position, tokens_wagered |-> tokensWagered,
   potential_payout |-> KalshiPayout(tokensWagered, price),
   payout_multiplier |-> KalshiMultiplier(price), tokens_won |-> 0]

\* INSERT INTO kalshi_bets, under UNIQUE(user_email, kalshi_ticker)
KalshiBetInsert(p) ==
  LET u == req[p].email
      k == <<u, req[p].ticker>>
      price == KalshiPrice(req[p], req[p].position)
  IN /\ pc[p] = "kbet_insert"
     /\ Free(p, <<"kbet", k[1], k[2]>>)
     /\ IF kalshi_bets[k].status # "none"
        THEN Rollback(p, "UniqueViolation")
        ELSE /\ tx' = [tx EXCEPT ![p].kbets = Put(@, k, NewKalshiBet(req[p].position, req[p].amount, price))]
             /\ locks' = [locks EXCEPT ![p] = @ \cup {<<"kbet", k[1], k[2]>>}]
             /\ pc' = [pc EXCEPT ![p] = "kbet_commit"]
             /\ result' = NoResult
             /\ UNCHANGED <<tables, world, req, todo, rows, cur>>

KalshiBetCommit(p) ==
  /\ pc[p] = "kbet_commit"
  /\ Commit(p, "ok")

\* --------------------------------- POST /api/kalshi/sync-resolutions
SyncRequest(p) == Begin(p, [NoReq EXCEPT !.op = "sync"], "sync_select")

\* SELECT DISTINCT kalshi_ticker FROM kalshi_bets WHERE status = 'active'
ActiveTickers == {k \in Tickers : \E u \in Users : kalshi_bets[<<u, k>>].status = "active"}

SyncSelect(p) ==
  /\ pc[p] = "sync_select"
  /\ IF ActiveTickers = {}
     THEN Finish(p, "ok") /\ UNCHANGED <<tables, world, locks, tx>>
     ELSE /\ todo' = [todo EXCEPT ![p] = ActiveTickers]
          /\ pc' = [pc EXCEPT ![p] = "sync_fetch"]
          /\ result' = NoResult
          /\ UNCHANGED <<tables, world, req, locks, tx, rows, cur>>

\* market.status === 'finalized' || market.result, then if (outcome)
VenueSettled(market) ==
  (market.status = "finalized" \/ market.result # "") /\ market.result # ""

\* the next ticker of the loop, or the response when none is left
SyncNext(p, left) ==
  IF left = {}
  THEN Finish(p, "ok")
  ELSE /\ todo' = [todo EXCEPT ![p] = left]
       /\ rows' = [rows EXCEPT ![p] = {}]
       /\ cur' = [cur EXCEPT ![p] = NoRow]
       /\ req' = [req EXCEPT ![p].ticker = "-", ![p].outcome = "-"]
       /\ pc' = [pc EXCEPT ![p] = "sync_fetch"]
       /\ result' = NoResult

\* kalshiRequest for one ticker and, when the venue has a result, the SELECT of
\* the active bets on it
SyncFetch(p) ==
  /\ pc[p] = "sync_fetch"
  /\ \E k \in todo[p] :
       LET active == {u \in Users : kalshi_bets[<<u, k>>].status = "active"}
       IN IF VenueSettled(venue[k]) /\ active # {}
          THEN /\ req' = [req EXCEPT ![p].ticker = k, ![p].outcome = venue[k].result]
               /\ todo' = [todo EXCEPT ![p] = @ \ {k}]
               /\ rows' = [rows EXCEPT ![p] = active]
               /\ pc' = [pc EXCEPT ![p] = "sync_bet"]
               /\ result' = NoResult
               /\ UNCHANGED <<cur>>
          ELSE SyncNext(p, todo[p] \ {k})
  /\ UNCHANGED <<tables, world, locks, tx>>

\* UPDATE kalshi_bets SET status = $1, tokens_won = $2 WHERE id = $3, on the pool
SyncUpdateBet(p) ==
  /\ pc[p] = "sync_bet"
  /\ \E u \in rows[p] :
       LET k == <<u, req[p].ticker>>
       IN /\ Free(p, <<"kbet", k[1], k[2]>>)
          /\ kalshi_bets' = [kalshi_bets EXCEPT ![k] = SettleBet(@, req[p].outcome)]
          /\ cur' = [cur EXCEPT ![p] = u]
          /\ rows' = [rows EXCEPT ![p] = @ \ {u}]
          /\ pc' = [pc EXCEPT ![p] = "sync_acct"]
  /\ result' = NoResult
  /\ UNCHANGED <<user_tokens, predictions, user_bets, payout_requests, token_purchases,
                 world, req, locks, tx, todo>>

\* UPDATE user_tokens SET balance = balance + $1, total_won = total_won + $1
\* for a winner, total_lost = total_lost + tokens_wagered for a loser
SyncSettleAccount(row, bet, outcome) ==
  IF bet.position = outcome
  THEN [row EXCEPT !.balance = @ + bet.potential_payout,
                   !.total_won = @ + bet.potential_payout]
  ELSE [row EXCEPT !.total_lost = @ + bet.tokens_wagered]

SyncUpdateAccount(p) ==
  LET u == cur[p]
      bet == kalshi_bets[<<u, req[p].ticker>>]
  IN /\ pc[p] = "sync_acct"
     /\ Free(p, <<"acct", u>>)
     /\ user_tokens' = [user_tokens EXCEPT ![u] = SyncSettleAccount(@, bet, req[p].outcome)]
     /\ IF rows[p] = {}
        THEN SyncNext(p, todo[p])
        ELSE /\ cur' = [cur EXCEPT ![p] = NoRow]
             /\ pc' = [pc EXCEPT ![p] = "sync_bet"]
             /\ result' = NoResult
             /\ UNCHANGED <<req, todo, rows>>
     /\ UNCHANGED <<predictions, user_bets, kalshi_bets, payout_requests, token_purchases,
                    world, locks, tx>>

\* a statement of the sync throws: the catch around one ticker logs it and the
\* loop goes on with the next ticker
SyncFail(p) ==
  /\ pc[p] \in {"sync_fetch", "sync_bet", "sync_acct"}
  /\ IF pc[p] = "sync_fetch"
     THEN \E k \in todo[p] : SyncNext(p, todo[p] \ {k})
     ELSE SyncNext(p, todo[p])
  /\ UNCHANGED <<tables, world, locks, tx>>

\* ------------------------------ POST /api/predictions/payout/request
\* the id the SERIAL column gives the next row
UnusedPayoutIds ==
  {i \in PayoutIds : payout_requests[i].status = "none"
                      /\ \A q \in Procs : i \notin DOMAIN tx[q].pay}

NextPayoutId == CHOOSE i \in UnusedPayoutIds : \A j \in UnusedPayoutIds : i <= j

\* tokens < MIN_PAYOUT_TOKENS is answered 400 before pool.connect()
PayoutRefuse(p, email, tokens) ==
  /\ tokens < MIN_PAYOUT_TOKENS
  /\ Refuse(p, "payout", "ValidationError")

PayoutBegin(p, email, tokens) ==
  /\ tokens >= MIN_PAYOUT_TOKENS
  /\ Begin(p, [NoReq EXCEPT !.op = "payout", !.email = email, !.amount = tokens], "pay_acct")

PayoutRequest(p, email, tokens) ==
  /\ Cardinality({i \in PayoutIds : payout_requests[i].status # "none"})
       + Cardinality({q \in Procs : req[q].op = "payout"}) < MaxPayouts
  /\ PayoutBegin(p, email, tokens)

\* SELECT * FROM user_tokens WHERE user_email = $1 FOR UPDATE, then the balance check
PayoutLockAccount(p) ==
  LET u == req[p].email
  IN /\ pc[p] = "pay_acct"
     /\ Free(p, <<"acct", u>>)
     /\ IF ~Acct(p, u).present
        THEN Rollback(p, "NotFound")
        ELSE IF InsufficientFunds(Acct(p, u), req[p].amount)
        THEN Rollback(p, "InsufficientFunds")
        ELSE /\ locks' = [locks EXCEPT ![p] = @ \cup {<<"acct", u>>}]
             /\ pc' = [pc EXCEPT ![p] = "pay_debit"]
             /\ result' = NoResult
             /\ UNCHANGED <<tables, world, req, tx, todo, rows, cur>>

\* UPDATE user_tokens SET balance = balance - $1
PayoutDebit(p) ==
  LET u == req[p].email
  IN /\ pc[p] = "pay_debit"
     /\ tx' = [tx EXCEPT ![p].acct = Put(@, u, Debit(Acct(p, u), req[p].amount))]
     /\ pc' = [pc EXCEPT ![p] = "pay_insert"]
     /\ result' = NoResult
     /\ UNCHANGED <<tables, world, req, locks, todo, rows, cur>>

NewPayoutApproved(email, tokens) ==
  [status |-> "approved", user_email |-> email, tokens_amount |-> tokens]

\* the row of INSERT INTO payout_requests (status defaults to 'pending')
NewPayout(email, tokens) ==
  [status |-> "pending", user_email |-> email, tokens_amount |-> tokens]

PayoutInsert(p) ==
  /\ pc[p] = "pay_insert"
  /\ tx' = [tx EXCEPT ![p].pay = Put(@, NextPayoutId, NewPayout(req[p].email, req[p].amount))]
  /\ pc' = [pc EXCEPT ![p] = "pay_commit"]
  /\ result' = NoResult
  /\ UNCHANGED <<tables, world, req, locks, todo, rows, cur>>

PayoutCommit(p) ==
  /\ pc[p] = "pay_commit"
  /\ Commit(p, "ok")

\* ------------------------ POST /api/predictions/admin/process-payout
ReviewRequest(p, payoutId, status) ==
  /\ reviews < MaxReviews
  /\ FirstFree(p)
  /\ pc' = [pc EXCEPT ![p] = IF status = "rejected" THEN "rev_select" ELSE "rev_update"]
  /\ req' = [req EXCEPT ![p] = [NoReq EXCEPT !.op = "review", !.payoutId = payoutId,
                                             !.status = status]]
  /\ result' = NoResult
  /\ reviews' = reviews + 1
  /\ UNCHANGED <<tables, venue, now, deliveries, cache, locks, tx, todo, rows, cur>>

\* SELECT * FROM payout_requests WHERE id = $1
ReviewSelect(p) ==
  /\ pc[p] = "rev_select"
  /\ IF payout_requests[req[p].payoutId].status # "none"
     THEN /\ req' = [req EXCEPT ![p].email = payout_requests[req[p].payoutId].user_email,
                                ![p].amount = payout_requests[req[p].payoutId].tokens_amount]
          /\ pc' = [pc EXCEPT ![p] = "rev_credit"]
     ELSE /\ pc' = [pc EXCEPT ![p] = "rev_update"]
          /\ UNCHANGED req
  /\ result' = NoResult
  /\ UNCHANGED <<tables, world, locks, tx, todo, rows, cur>>

\* UPDATE user_tokens SET balance = balance + $1
Credit(row, amount) == [row EXCEPT !.balance = @ + amount]

ReviewCredit(p) ==
  /\ pc[p] = "rev_credit"
  /\ Free(p, <<"acct", req[p].email>>)
  /\ user_tokens' = [user_tokens EXCEPT ![req[p].email] = Credit(@, req[p].amount)]
  /\ pc' = [pc EXCEPT ![p] = "rev_update"]
  /\ result' = NoResult
  /\ UNCHANGED <<predictions, user_bets, kalshi_bets, payout_requests, token_purchases,
                 world, req, locks, tx, todo, rows, cur>>

\* UPDATE payout_requests SET status = $1 WHERE id = $5
ReviewUpdate(p) ==
  /\ pc[p] = "rev_update"
  /\ payout_requests' = [payout_requests EXCEPT ![req[p].payoutId] =
        IF @.status = "none" THEN @ ELSE [@ EXCEPT !.status = req[p].status]]
  /\ Finish(p, "ok")
  /\ UNCHANGED <<user_tokens, predictions, user_bets, kalshi_bets, token_purchases,
                 world, locks, tx>>

\* a statement of the review throws: the handler answers 500, nothing is undone
ReviewFail(p) ==
  /\ pc[p] \in {"rev_select", "rev_credit", "rev_update"}
  /\ Finish(p, "PersistenceFailure")
  /\ UNCHANGED <<tables, world, locks, tx>>

\* -------------------------------- POST /api/predictions/tokens/webhook
\* a checkout.session.completed event for session c is delivered
Deliver(p, c, max) ==
  /\ deliveries < max
  /\ FirstFree(p)
  /\ pc' = [pc EXCEPT ![p] = "hook_purchase"]
  /\ req' = [req EXCEPT ![p] = [NoReq EXCEPT !.op = "webhook", !.session = c,
                                             !.email = token_purchases[c].user_email,
                                             !.amount = token_purchases[c].tokens_amount]]
  /\ result' = NoResult
  /\ deliveries' = deliveries + 1
  /\ UNCHANGED <<tables, venue, now, reviews, cache, locks, tx, todo, rows, cur>>

WebhookRequest(p, c) == Deliver(p, c, MaxDeliveries)

\* UPDATE token_purchases SET status = 'completed' WHERE stripe_checkout_session_id = $2
WebhookPurchase(p) ==
  /\ pc[p] = "hook_purchase"
  /\ token_purchases' = [token_purchases EXCEPT ![req[p].session].status = "completed"]
  /\ pc' = [pc EXCEPT ![p] = "hook_credit"]
  /\ result' = NoResult
  /\ UNCHANGED <<user_tokens, predictions, user_bets, kalshi_bets, payout_requests,
                 world, req, locks, tx, todo, rows, cur>>

\* UPDATE user_tokens SET balance = balance + $1, total_purchased = total_purchased + $1
CreditPurchase(row, tokensToAdd) ==
  [row EXCEPT !.balance = @ + tokensToAdd, !.total_purchased = @ + tokensToAdd]

WebhookCredit(p) ==
  /\ pc[p] = "hook_credit"
  /\ Free(p, <<"acct", req[p].email>>)
  /\ user_tokens' = [user_tokens EXCEPT ![req[p].email] = CreditPurchase(@, req[p].amount)]
  /\ Finish(p, "ok")
  /\ UNCHANGED <<predictions, user_bets, kalshi_bets, payout_requests, token_purchases,
                 world, locks, tx>>

\* a statement of the webhook throws: the error is logged, the event is acknowledged
WebhookFail(p) ==
  /\ pc[p] \in {"hook_purchase", "hook_credit"}
  /\ Finish(p, "ok")
  /\ UNCHANGED <<tables, world, locks, tx>>

\* ------ GET /tokens/balance and POST /tokens/purchase (getOrCreateTokenAccount)
BalanceRequest(p, email) ==
  Begin(p, [NoReq EXCEPT !.op = "balance", !.email = email], "goc_select")

\* the session Stripe makes for the checkout gets one row of token_purchases
PurchaseRequest(p, email, tokens) ==
  /\ \E c \in Sessions : token_purchases[c].status = "none"
  /\ \A q \in Procs : req[q].op # "purchase"
  /\ Begin(p, [NoReq EXCEPT !.op = "purchase", !.email = email, !.amount = tokens],
           "goc_select")

\* what the handler does with the account it got: the balance query answers, the
\* purchase goes on to its checkout session
AccountGot(p) ==
  IF req[p].op = "balance"
  THEN Finish(p, "ok")
  ELSE /\ pc' = [pc EXCEPT ![p] = "purch_insert"]
       /\ result' = NoResult
       /\ UNCHANGED <<req, todo, rows, cur>>

\* SELECT * FROM user_tokens WHERE user_email = $1
AccountSelect(p) ==
  /\ pc[p] = "goc_select"
  /\ IF user_tokens[req[p].email].present
     THEN AccountGot(p)
     ELSE /\ pc' = [pc EXCEPT ![p] = "goc_insert"]
          /\ result' = NoResult
          /\ UNCHANGED <<req, todo, rows, cur>>
  /\ UNCHANGED <<tables, world, locks, tx>>

\* INSERT INTO user_tokens (user_email, balance) VALUES ($1, 0); user_email is
\* UNIQUE, so the INSERT throws when another request has made the row meanwhile
AccountInsert(p) ==
  /\ pc[p] = "goc_insert"
  /\ IF user_tokens[req[p].email].present
     THEN Finish(p, "PersistenceFailure") /\ UNCHANGED user_tokens
     ELSE /\ user_tokens' = [user_tokens EXCEPT ![req[p].email] = NewAccount]
          /\ AccountGot(p)
  /\ UNCHANGED <<predictions, user_bets, kalshi_bets, payout_requests, token_purchases,
                 world, locks, tx>>

\* stripe.checkout.sessions.create, then INSERT INTO token_purchases (..., 'pending')
PurchaseInsert(p) ==
  /\ pc[p] = "purch_insert"
  /\ \E c \in Sessions :
       /\ token_purchases[c].status = "none"
       /\ token_purchases' = [token_purchases EXCEPT ![c] =
            [status |-> "pending", user_email |-> req[p].email,
             tokens_amount |-> req[p].amount]]
  /\ Finish(p, "ok")
  /\ UNCHANGED <<user_tokens, predictions, user_bets, kalshi_bets, payout_requests,
                 world, locks, tx>>

\* a statement of either handler throws: it answers 500, nothing is undone
AccountFail(p) ==
  /\ pc[p] \in {"goc_select", "goc_insert", "purch_insert"}
  /\ Finish(p, "PersistenceFailure")
  /\ UNCHANGED <<tables, world, locks, tx>>

\* ------------------------------- the three ways a market gets into the table
\* no predictions row with the id
NoMarket == [InitPredictions["m2"] EXCEPT !.status = "none", !.closes_at = 0,
                                          !.resolves_at = 0]

\* the row of the INSERT, counters and bounds at their defaults
NewMarket(status, subcategory, multiplier, opensAt, closesAt, resolvesAt) ==
  [InitPredictions["m2"] EXCEPT !.status = status, !.subcategory = subcategory,
                                !.yes_payout_multiplier = multiplier,
                                !.no_payout_multiplier = multiplier,
                                !.opens_at = opensAt, !.closes_at = closesAt,
                                !.resolves_at = resolvesAt]

\* the INSERT of a creator, on the pool; id is the SERIAL key
InsertMarket(id, row, op) ==
  /\ predictions[id].status = "none"
  /\ predictions' = [predictions EXCEPT ![id] = row]
  /\ result' = [op |-> op, code |-> "ok", at |-> "insert"]
  /\ UNCHANGED <<user_tokens, user_bets, kalshi_bets, payout_requests, token_purchases,
                 world, slots>>

\* POST /admin/create: closesAt and resolvesAt as given, opensAt || new Date()
\* (opensAt is {} when the request has none, else the set of its one value)
AdminCreate(id, opensAt, closesAt, resolvesAt) ==
  InsertMarket(id, NewMarket("open", "null", ADMIN_YES_MULTIPLIER,
                             IF opensAt = {} THEN now ELSE CHOOSE t \in opensAt : TRUE,
                             closesAt, resolvesAt), "create")

\* minutes from midnight of day 0 to hh:mm of the given day
At(day, hh, mm) == (day * 24 + hh) * 60 + mm

\* DATE(timestamp): the day a minute count lies in
DATE(t) == t \div (24 * 60)

\* the first tickers of DAILY_TICKERS, in the order of the list
DAILY_TICKERS == <<"TSLA", "NVDA">>

Range(list) == {list[i] : i \in DOMAIN list}

\* 8pm the night before, 9:30am and 4:30pm of the trading day
createDailyTimes(tradingDate) ==
  [opensAt |-> At(tradingDate - 1, 20, 0), closesAt |-> At(tradingDate, 9, 30),
   resolvesAt |-> At(tradingDate, 16, 30)]

\* Sunday 8pm, Monday 9:30am, and 4:30pm of the Friday of that week
createWeeklyTimes(mondayDate) ==
  [opensAt |-> At(mondayDate - 1, 20, 0), closesAt |-> At(mondayDate, 9, 30),
   resolvesAt |-> At(mondayDate + 4, 16, 30)]

\* the row createDailyPrediction inserts for a ticker and a trading day
DailyRow(ticker, tradingDate) ==
  LET t == createDailyTimes(tradingDate)
  IN [NewMarket("upcoming", "close_green", DEFAULT_YES_MULTIPLIER,
                t.opensAt, t.closesAt, t.resolvesAt) EXCEPT !.ticker = ticker]

\* a call of createDailyPrediction that finds no row and inserts
createDailyPrediction(id, tradingDate) ==
  \E k \in Range(DAILY_TICKERS) :
    InsertMarket(id, DailyRow(k, tradingDate), "generate")

createWeeklyPrediction(id, mondayDate) ==
  LET t == createWeeklyTimes(mondayDate)
  IN InsertMarket(id, NewMarket("upcoming", "range", DEFAULT_YES_MULTIPLIER,
                                t.opensAt, t.closesAt, t.resolvesAt), "generate")

\* seedPredictions: opens now, closes one minute before the listed resolves_at
seedPredictions(id, resolves_at) ==
  InsertMarket(id, NewMarket("open", "null", ADMIN_YES_MULTIPLIER,
                             now, resolves_at - 1, resolves_at), "seed")

\* ------------------------- generateDailyPredictions (generate-predictions.js)
\* the run starts with the first ticker of the list; tradingDate is the run's
\* getNextTradingDay()
generateDailyPredictions(p, tradingDate) ==
  Begin(p, [NoReq EXCEPT !.op = "generate", !.tradingDate = tradingDate,
                         !.ticker = DAILY_TICKERS[1]], "daily_select")

\* SELECT id FROM predictions WHERE ticker = $1 AND DATE(resolves_at) = DATE($2)
\* AND category = 'daily' AND subcategory = 'close_green'
Existing(ticker, resolvesAt) ==
  {m \in Markets : /\ predictions[m].status # "none"
                   /\ predictions[m].ticker = ticker
                   /\ DATE(predictions[m].resolves_at) = DATE(resolvesAt)
                   /\ predictions[m].subcategory = "close_green"}

\* createDailyPrediction returns; the for loop takes the next ticker or ends
NextTicker(p, code) ==
  LET i == CHOOSE j \in DOMAIN DAILY_TICKERS : DAILY_TICKERS[j] = req[p].ticker
  IN IF i = Len(DAILY_TICKERS)
     THEN Finish(p, code)
     ELSE /\ pc' = [pc EXCEPT ![p] = "daily_select"]
          /\ req' = [req EXCEPT ![p].ticker = DAILY_TICKERS[i + 1]]
          /\ result' = [op |-> "generate", code |-> code, at |-> pc[p]]
          /\ UNCHANGED <<todo, rows, cur>>

\* the existence check, a statement of its own on the pool
DailySelect(p) ==
  /\ pc[p] = "daily_select"
  /\ IF Existing(req[p].ticker, createDailyTimes(req[p].tradingDate).resolvesAt) # {}
     THEN NextTicker(p, "skipped")
     ELSE /\ pc' = [pc EXCEPT ![p] = "daily_insert"]
          /\ result' = NoResult
          /\ UNCHANGED <<req, todo, rows, cur>>
  /\ UNCHANGED <<tables, world, locks, tx>>

\* the INSERT, a second statement on the pool; id is the SERIAL key
DailyInsert(p) ==
  /\ pc[p] = "daily_insert"
  /\ \E id \in Markets :
       /\ predictions[id].status = "none"
       /\ predictions' = [predictions EXCEPT
                            ![id] = DailyRow(req[p].ticker, req[p].tradingDate)]
  /\ NextTicker(p, "created")
  /\ UNCHANGED <<user_tokens, user_bets, kalshi_bets, payout_requests, token_purchases,
                 world, locks, tx>>

\* a statement throws: the catch block logs and returns null, the loop goes on
DailyFail(p) ==
  /\ pc[p] \in {"daily_select", "daily_insert"}
  /\ NextTicker(p, "skipped")
  /\ UNCHANGED <<tables, world, locks, tx>>

DailySteps(p) ==
  \/ DailySelect(p)
  \/ DailyInsert(p)
  \/ DailyFail(p)

\* ------------------------------------------------ GET /leaderboard (alpaca.js)
\* HAVING COUNT(CASE WHEN ub.status IN ('won', 'lost') THEN 1 END) > 0 over
\* user_tokens LEFT JOIN user_bets
Having(u) ==
  /\ user_tokens[u].present
  /\ \E m \in Markets : user_bets[<<u, m>>].status \in {"won", "lost"}

net_profit(u) == user_tokens[u].total_won - user_tokens[u].total_lost

\* ORDER BY net_profit DESC: the orders of the grouped rows the query can
\* return, rows of equal net_profit in any order
OrderBy ==
  LET G == {u \in Users : Having(u)}
  IN {o \in [1..Cardinality(G) -> G] :
        /\ \A i, j \in DOMAIN o : i # j => o[i] # o[j]
        /\ \A i, j \in DOMAIN o : i < j => net_profit(o[i]) >= net_profit(o[j])}

\* LIMIT $1 and the rank given by rows.map((row, index) => ...)
leaderboard(limit) ==
  {[i \in 1..(IF Len(o) < limit THEN Len(o) ELSE limit) |->
      [rank |-> i, user_email |-> o[i], total_won |-> user_tokens[o[i]].total_won,
       total_lost |-> user_tokens[o[i]].total_lost, net_profit |-> net_profit(o[i])]] :
     o \in OrderBy}

\* the route: one autocommit query, answered with its rows
Leaderboard(p, limit) ==
  /\ FirstFree(p)
  /\ \E r \in leaderboard(limit) :
       result' = [op |-> "leaderboard", code |-> "ok", at |-> "idle", leaderboard |-> r]
  /\ UNCHANGED <<tables, world, slots>>

\* ------------------------------------- GET /markets, GET /event/:t/markets
\* transformKalshiMarket: status, result, and the multipliers with two decimals
transformKalshiMarket(m) ==
  [status |-> m.status, result |-> m.result,
   yes_payout_multiplier |-> KalshiMultiplier(KalshiPrice(m, "yes")),
   no_payout_multiplier |-> KalshiMultiplier(KalshiPrice(m, "no")),
   min_bet |-> KALSHI_MIN_BET, max_bet |-> KALSHI_MAX_BET]

\* the venue's answer to /markets?status=open and to /markets?event_ticker=...
\* (every market of the model belongs to the one event)
VenueMarkets(key) ==
  LET listed == IF key = "markets" THEN {k \in Tickers : venue[k].status = "open"}
                                   ELSE Tickers
  IN [k \in listed |-> transformKalshiMarket(venue[k])]

\* an entry that is still served when its age equals the time-to-live
FreshAtTtl(entry, t) == entry.present /\ t - entry.time <= CACHE_TTL

\* marketsCache && (now - marketsCacheTime) < CACHE_TTL
Fresh(entry, t) == entry.present /\ t - entry.time < CACHE_TTL

\* the handler up to its first await: the cached answer, or the outbound call
\* with the time read at the start
CacheRequest(p, key) ==
  IF Fresh(cache[key], now)
  THEN /\ FirstFree(p)
       /\ result' = [op |-> "list", code |-> "cached", at |-> "idle",
                     markets |-> cache[key].markets, event |-> cache[key].event]
       /\ UNCHANGED <<tables, world, slots>>
  ELSE Begin(p, [NoReq EXCEPT !.op = "list", !.ticker = key, !.at = now],
             IF key = "markets" THEN "list_markets" ELSE "list_event")

\* kalshiRequest('GET', `/events/${eventTicker}`) of the per-event route
CacheFetchEvent(p) ==
  /\ pc[p] = "list_event"
  /\ \/ /\ pc' = [pc EXCEPT ![p] = "list_markets"]
        /\ result' = NoResult
        /\ UNCHANGED <<req, todo, rows, cur>>
     \/ Finish(p, "UpstreamFailure")
  /\ UNCHANGED <<tables, world, locks, tx>>

\* the markets request: it throws and the route answers 500, or its answer is
\* stored with the time read at the start of the handler
CacheFetchMarkets(p) ==
  LET key == req[p].ticker
  IN /\ pc[p] = "list_markets"
     /\ \/ /\ cache' = [cache EXCEPT ![key] =
                          [present |-> TRUE, time |-> req[p].at,
                           markets |-> VenueMarkets(key),
                           event |-> IF key = "markets" THEN "-" ELSE key]]
           /\ Finish(p, "ok")
        \/ /\ Finish(p, "UpstreamFailure")
           /\ UNCHANGED cache
     /\ UNCHANGED <<tables, venue, now, deliveries, reviews, locks, tx>>

CacheSteps(p) ==
  \/ CacheFetchEvent(p)
  \/ CacheFetchMarkets(p)

\* ------------------------------------------- validation of the request body
\* a string of the body is the sequence of its characters
Digits == {"0", "1", "2", "3", "4", "5", "6", "7", "8", "9"}

DigitValue(c) ==
  CASE c = "0" -> 0 [] c = "1" -> 1 [] c = "2" -> 2 [] c = "3" -> 3 [] c = "4" -> 4
    [] c = "5" -> 5 [] c = "6" -> 6 [] c = "7" -> 7 [] c = "8" -> 8 [] c = "9" -> 9

\* the string without its sign
Unsigned(s) == IF s # <<>> /\ s[1] \in {"-", "+"} THEN Tail(s) ELSE s

\* the digits the string starts with
RECURSIVE DigitPrefix(_)
DigitPrefix(s) ==
  IF s = <<>> \/ s[1] \notin Digits THEN <<>> ELSE <<s[1]>> \o DigitPrefix(Tail(s))

RECURSIVE Decimal(_)
Decimal(ds) ==
  IF ds = <<>> THEN 0 ELSE 10 * Decimal(SubSeq(ds, 1, Len(ds) - 1)) + DigitValue(ds[Len(ds)])

\* isNaN(parseInt(s)): no digit after the optional sign
IsNaN(s) == DigitPrefix(Unsigned(s)) = <<>>

\* parseInt(s): the sign and the leading digits, whatever follows them
parseInt(s) ==
  (IF s # <<>> /\ s[1] = "-" THEN -1 ELSE 1) * Decimal(DigitPrefix(Unsigned(s)))

\* POST /api/predictions/bet with the body as sent: the three checks made before
\* pool.connect(), then the transaction
PlaceBet(p, email, predictionId, position, amount) ==
  IF \/ email = "" \/ predictionId = "" \/ position = "" \/ amount = <<>>
     \/ position \notin {"yes", "no"}
     \/ IsNaN(amount) \/ parseInt(amount) < 1
  THEN Refuse(p, "bet", "ValidationError")
  ELSE Begin(p, [NoReq EXCEPT !.op = "bet", !.email = email, !.predictionId = predictionId,
                              !.position = position, !.amount = parseInt(amount),
                              !.raw = amount], "bet_lock")

\* POST /api/kalshi/bet with the body as sent
KalshiPlaceBet(p, email, marketTicker, position, amount) ==
  IF \/ email = "" \/ marketTicker = "" \/ position = "" \/ amount = <<>>
     \/ position \notin {"yes", "no"}
     \/ IsNaN(amount) \/ parseInt(amount) < KALSHI_MIN_BET
  THEN Refuse(p, "kbet", "ValidationError")
  ELSE Begin(p, [NoReq EXCEPT !.op = "kbet", !.email = email, !.ticker = marketTicker,
                              !.position = position, !.amount = parseInt(amount),
                              !.raw = amount], "kbet_fetch")

\* POST /api/predictions/:id/resolve with the body as sent
ResolveCall(p, id, outcome, adminEmail) ==
  IF adminEmail = ""
  THEN Refuse(p, "resolve", "Unauthorized")
  ELSE IF outcome \notin {"yes", "no"}
  THEN Refuse(p, "resolve", "ValidationError")
  ELSE ResolveRequest(p, id, outcome)

\* ------------------- processBetsForPrediction (resolve-predictions.js)
\* SELECT * FROM user_bets WHERE prediction_id = $1 AND status = 'active',
\* first statement of the transaction
ProcessSelectBets(p) ==
  /\ pc[p] = "pb_select"
  /\ rows' = [rows EXCEPT ![p] = ActiveBets(p, req[p].predictionId)]
  /\ pc' = [pc EXCEPT ![p] = IF ActiveBets(p, req[p].predictionId) = {}
                             THEN "pb_commit" ELSE "pb_bet"]
  /\ result' = NoResult
  /\ UNCHANGED <<tables, world, req, locks, tx, todo, cur>>

\* UPDATE user_bets SET status = $1, tokens_won = $2 WHERE id = $3: it waits for
\* the row lock and then writes the row whatever its status has become
ProcessUpdateBet(p) ==
  /\ pc[p] = "pb_bet"
  /\ \E u \in rows[p] :
       LET k == <<u, req[p].predictionId>>
       IN /\ Free(p, <<"bet", k[1], k[2]>>)
          /\ tx' = [tx EXCEPT ![p].bets = Put(@, k, SettleBet(Bet(p, k), req[p].outcome))]
          /\ locks' = [locks EXCEPT ![p] = @ \cup {<<"bet", k[1], k[2]>>}]
          /\ cur' = [cur EXCEPT ![p] = u]
          /\ rows' = [rows EXCEPT ![p] = @ \ {u}]
          /\ pc' = [pc EXCEPT ![p] = "pb_acct"]
          /\ result' = NoResult
          /\ UNCHANGED <<tables, world, req, todo>>

ProcessUpdateAccount(p) ==
  LET u == cur[p]
      bet == Bet(p, <<u, req[p].predictionId>>)
  IN /\ pc[p] = "pb_acct"
     /\ Free(p, <<"acct", u>>)
     /\ tx' = [tx EXCEPT ![p].acct = Put(@, u, SettleAccount(Acct(p, u), bet, req[p].outcome))]
     /\ locks' = [locks EXCEPT ![p] = @ \cup {<<"acct", u>>}]
     /\ cur' = [cur EXCEPT ![p] = NoRow]
     /\ pc' = [pc EXCEPT ![p] = IF rows[p] = {} THEN "pb_commit" ELSE "pb_bet"]
     /\ result' = NoResult
     /\ UNCHANGED <<tables, world, req, todo, rows>>

\* COMMIT; manualResolve returns, resolveReadyPredictions goes on with its loop
ProcessCommit(p) ==
  /\ pc[p] = "pb_commit"
  /\ IF req[p].op = "auto" /\ todo[p] # {}
     THEN /\ user_tokens' = Merge(user_tokens, tx[p].acct)
          /\ user_bets' = Merge(user_bets, tx[p].bets)
          /\ tx' = [tx EXCEPT ![p] = NoTx]
          /\ locks' = [locks EXCEPT ![p] = {}]
          /\ pc' = [pc EXCEPT ![p] = "auto_quote"]
          /\ req' = [req EXCEPT ![p].predictionId = "-", ![p].outcome = "-"]
          /\ result' = NoResult
          /\ UNCHANGED <<predictions, kalshi_bets, payout_requests, token_purchases,
                         world, todo, rows, cur>>
     ELSE Commit(p, "ok")

\* --------------------------------- manualResolve (resolve-predictions.js)
ManualResolveRequest(p, predictionId, outcome) ==
  Begin(p, [NoReq EXCEPT !.op = "manual", !.predictionId = predictionId,
                         !.outcome = outcome], "man_update")

\* UPDATE predictions SET status = 'resolved', outcome = $1 WHERE id = $4, on the pool
ManualUpdate(p) ==
  LET m == req[p].predictionId
  IN /\ pc[p] = "man_update"
     /\ Free(p, <<"pred", m>>)
     /\ predictions' = [predictions EXCEPT ![m] = MarkResolved(@, req[p].outcome)]
     /\ pc' = [pc EXCEPT ![p] = "pb_select"]
     /\ result' = NoResult
     /\ UNCHANGED <<user_tokens, user_bets, kalshi_bets, payout_requests, token_purchases,
                    world, req, locks, tx, todo, rows, cur>>

\* ----------------------- resolveReadyPredictions (the automated resolver)
AutoResolveRequest(p) == Begin(p, [NoReq EXCEPT !.op = "auto"], "auto_select")

\* WHERE status = 'closed' AND outcome IS NULL AND resolves_at <= NOW()
Ready(row, t) == row.status = "closed" /\ row.outcome = "null" /\ row.resolves_at <= t

AutoSelect(p) ==
  LET ready == {m \in Markets : Ready(predictions[m], now)}
  IN /\ pc[p] = "auto_select"
     /\ IF ready = {}
        THEN Finish(p, "ok") /\ UNCHANGED <<tables, world, locks, tx>>
        ELSE /\ todo' = [todo EXCEPT ![p] = ready]
             /\ pc' = [pc EXCEPT ![p] = "auto_quote"]
             /\ result' = NoResult
             /\ UNCHANGED <<tables, world, req, locks, tx, rows, cur>>

\* the next market of the pass, or its end
AutoNext(p, left) ==
  IF left = {}
  THEN Finish(p, "ok")
  ELSE /\ todo' = [todo EXCEPT ![p] = left]
       /\ pc' = [pc EXCEPT ![p] = "auto_quote"]
       /\ result' = NoResult
       /\ UNCHANGED <<req, rows, cur>>

\* markets with a resolver function
HasResolver(row) == row.subcategory \in {"close_green", "range"}

\* the last open of the chart the oracle returns: a price, null where the day has
\* no value yet, undefined where the series is empty
Opens == {"undefined", "null", "2"}

\* quote.close[last] || meta.regularMarketPrice
Closes == {"undefined", "1", "3"}

\* the oracle's answers: the request throws, or a chart comes back
Charts == {[ok |-> FALSE, open |-> "-", close |-> "-"]}
            \cup {[ok |-> TRUE, open |-> o, close |-> c] : o \in Opens, c \in Closes}

\* ToNumber of the values above (undefined is NaN and has none)
ToNumber(v) == CASE v = "null" -> 0 [] v = "1" -> 1 [] v = "2" -> 2 [] v = "3" -> 3

\* a > b of the language: false when a side is NaN
Greater(a, b) == a # "undefined" /\ b # "undefined" /\ ToNumber(a) > ToNumber(b)

\* getQuote: null when the request threw, else the quote with isGreen
getQuote(chart) ==
  IF ~chart.ok
  THEN "null"
  ELSE IF Greater(chart.close, chart.open) THEN "green" ELSE "red"

\* resolveDailyCloseGreen
resolveDailyCloseGreen(chart) ==
  CASE getQuote(chart) = "null" -> "null"
    [] getQuote(chart) = "green" -> "yes"
    [] OTHER -> "no"

\* one iteration: ORDER BY resolves_at ASC; the resolver function asks the price
\* oracle and answers nothing (the quote failed) or yes / no
AutoQuote(p) ==
  /\ pc[p] = "auto_quote"
  /\ \E m \in todo[p] :
       /\ \A n \in todo[p] : predictions[m].resolves_at <= predictions[n].resolves_at
       /\ IF ~HasResolver(predictions[m])
          THEN AutoNext(p, todo[p] \ {m})
          ELSE \E chart \in Charts :
                 IF resolveDailyCloseGreen(chart) = "null"
                 THEN AutoNext(p, todo[p] \ {m})
                 ELSE /\ req' = [req EXCEPT ![p].predictionId = m,
                                            ![p].outcome = resolveDailyCloseGreen(chart),
                                            ![p].open = chart.open,
                                            ![p].close = chart.close]
                      /\ todo' = [todo EXCEPT ![p] = @ \ {m}]
                      /\ pc' = [pc EXCEPT ![p] = "auto_update"]
                      /\ result' = NoResult
                      /\ UNCHANGED <<rows, cur>>
  /\ UNCHANGED <<tables, world, locks, tx>>

\* UPDATE predictions SET status = 'resolved', outcome = $1 WHERE id = $3, on the pool
AutoUpdate(p) ==
  LET m == req[p].predictionId
  IN /\ pc[p] = "auto_update"
     /\ Free(p, <<"pred", m>>)
     /\ predictions' = [predictions EXCEPT ![m] = MarkResolved(@, req[p].outcome)]
     /\ pc' = [pc EXCEPT ![p] = "pb_select"]
     /\ result' = NoResult
     /\ UNCHANGED <<user_tokens, user_bets, kalshi_bets, payout_requests, token_purchases,
                    world, req, locks, tx, todo, rows, cur>>

\* a statement outside the transaction throws: the pass ends in its catch block
\* (manualResolve: the error goes to the caller)
ResolverFail(p) ==
  /\ pc[p] \in {"man_update", "auto_select", "auto_update"}
  /\ Finish(p, "PersistenceFailure")
  /\ UNCHANGED <<tables, world, locks, tx>>

\* ---------------------------------------------------------- specification
BetSteps(p) ==
  \/ BetLockMarket(p)
  \/ BetCheckExisting(p)
  \/ BetLockAccount(p)
  \/ BetDebit(p)
  \/ BetInsert(p)
  \/ BetVolume(p)
  \/ BetCommit(p)

ResolveSteps(p) ==
  \/ ResolveLockMarket(p)
  \/ ResolveSelectBets(p)
  \/ ResolveUpdateBet(p)
  \/ ResolveUpdateAccount(p)
  \/ ResolveCommit(p)

SweepSteps(p) ==
  \/ SweepRequest(p)
  \/ SweepOpen(p)
  \/ SweepClose(p)
  \/ SweepFail(p)

\* one internal market, two bettors, the admin resolution route and the sweep
MarketBets == (Users \X Positions \X {100}) \cup {<<"u1", "yes", 5>>, <<"u1", "yes", 2000>>}

NextMarket ==
  \/ Tick
  \/ \E p \in Procs :
       \/ Fail(p)
       \/ \E b \in MarketBets : BetRequest(p, b[1], "m2", b[2], b[3])
       \/ BetSteps(p)
       \/ \E o \in Positions : ResolveRequest(p, "m2", o)
       \/ ResolveSteps(p)
       \/ SweepSteps(p)

SpecMarket == Init /\ [][NextMarket]_vars

KalshiBetSteps(p) ==
  \/ KalshiBetFetch(p)
  \/ KalshiBetLockAccount(p)
  \/ KalshiBetCheckExisting(p)
  \/ KalshiBetDebit(p)
  \/ KalshiBetInsert(p)
  \/ KalshiBetCommit(p)

SyncSteps(p) ==
  \/ SyncSelect(p)
  \/ SyncFetch(p)
  \/ SyncUpdateBet(p)
  \/ SyncUpdateAccount(p)
  \/ SyncFail(p)

PayoutSteps(p) ==
  \/ PayoutLockAccount(p)
  \/ PayoutDebit(p)
  \/ PayoutInsert(p)
  \/ PayoutCommit(p)

ReviewSteps(p) ==
  \/ ReviewSelect(p)
  \/ ReviewCredit(p)
  \/ ReviewUpdate(p)
  \/ ReviewFail(p)

WebhookSteps(p) ==
  \/ WebhookPurchase(p)
  \/ WebhookCredit(p)
  \/ WebhookFail(p)

\* one account and everything that debits or credits it: internal and mirrored
\* bets, both settlements, payout requests and reviews, purchases
LedgerBets == {<<"yes", 100>>}

NextLedger ==
  \/ VenueSettle("k1", "yes")
  \/ \E p \in Procs :
       \/ Fail(p)
       \/ \E b \in LedgerBets : BetRequest(p, "u1", "m2", b[1], b[2])
       \/ BetSteps(p)
       \/ \E b \in LedgerBets : KalshiBetRequest(p, "u1", "k1", b[1], b[2])
       \/ KalshiBetSteps(p)
       \/ ResolveRequest(p, "m2", "yes")
       \/ ResolveSteps(p)
       \/ SyncRequest(p)
       \/ SyncSteps(p)
       \/ PayoutRequest(p, "u1", MIN_PAYOUT_TOKENS)
       \/ PayoutSteps(p)
       \/ ReviewRequest(p, 1, "rejected")
       \/ ReviewSteps(p)
       \/ WebhookRequest(p, "s1")
       \/ WebhookSteps(p)

SpecLedger == Init /\ [][NextLedger]_vars

ProcessSteps(p) ==
  \/ ProcessSelectBets(p)
  \/ ProcessUpdateBet(p)
  \/ ProcessUpdateAccount(p)
  \/ ProcessCommit(p)

AutoResolveSteps(p) ==
  \/ AutoSelect(p)
  \/ AutoQuote(p)
  \/ AutoUpdate(p)

\* a generated market from upcoming to resolved, with one bettor, under the
\* sweep, the admin route, the automated resolver and the manual helper
NextResolvers ==
  \/ Tick
  \/ \E p \in Procs :
       \/ Fail(p)
       \/ ResolverFail(p)
       \/ SweepSteps(p)
       \/ BetRequest(p, "u1", "m1", "yes", 100)
       \/ BetSteps(p)
       \/ \E o \in Positions : ResolveRequest(p, "m1", o)
       \/ ResolveSteps(p)
       \/ \E o \in Positions : ManualResolveRequest(p, "m1", o)
       \/ ManualUpdate(p)
       \/ AutoResolveRequest(p)
       \/ AutoResolveSteps(p)
       \/ ProcessSteps(p)

SpecResolvers == Init /\ [][NextResolvers]_vars

\* two bettors on the two sides of an internal market, a mirrored wager, and every
\* path that settles a wager: the admin route, the manual helper, the outcome sync
SettleBets == {<<"u1", "yes">>, <<"u2", "no">>}

NextSettle ==
  \/ \E r \in Positions : VenueSettle("k1", r)
  \/ \E p \in Procs :
       \/ Fail(p)
       \/ ResolverFail(p)
       \/ \E b \in SettleBets : BetRequest(p, b[1], "m2", b[2], 100)
       \/ BetSteps(p)
       \/ KalshiBetRequest(p, "u1", "k1", "yes", 100)
       \/ KalshiBetSteps(p)
       \/ \E o \in Positions : ResolveRequest(p, "m2", o)
       \/ ResolveSteps(p)
       \/ \E o \in Positions : ManualResolveRequest(p, "m2", o)
       \/ ManualUpdate(p)
       \/ ProcessSteps(p)
       \/ SyncRequest(p)
       \/ SyncSteps(p)

SpecSettle == Init /\ [][NextSettle]_vars

\* the bounds /admin/create gives a market: its defaults, or the minBet and
\* maxBet of the request
AdminBounds == {<<DEFAULT_MIN_BET, DEFAULT_MAX_BET>>, <<50, 500>>}

InitBounds ==
  \E b \in AdminBounds :
    InitWith([InitPredictions EXCEPT !["m2"].min_bet = b[1], !["m2"].max_bet = b[2]])

\* the stakes at and next to the bounds of a market
BoundaryBets(row) == {row.min_bet - 1, row.min_bet, row.max_bet, row.max_bet + 1}

\* bets at the bounds of one open market
NextBounds ==
  \E p \in Procs :
    \/ Fail(p)
    \/ \E u \in Users : \E a \in BoundaryBets(predictions["m2"]) :
         BetRequest(p, u, "m2", "yes", a)
    \/ BetSteps(p)

SpecBounds == InitBounds /\ [][NextBounds]_vars

\* two markets made by /admin/create, both open
InitOpenMarkets == InitWith([m \in Markets |-> InitPredictions["m2"]])

\* two bettors on two open markets, and the admin route and the manual helper
\* resolving them
NextLocks ==
  \E p \in Procs :
    \/ Fail(p)
    \/ ResolverFail(p)
    \/ \E u \in Users : \E m \in Markets : BetRequest(p, u, m, "yes", 100)
    \/ BetSteps(p)
    \/ \E m \in Markets : ResolveRequest(p, m, "yes")
    \/ ResolveSteps(p)
    \/ \E m \in Markets : ManualResolveRequest(p, m, "yes")
    \/ ManualUpdate(p)
    \/ ProcessSteps(p)

SpecLocks == InitOpenMarkets /\ [][NextLocks]_vars

\* the results the venue reports for a determined market
VenueResults == {"yes", "no", "void"}

\* mirrored bets of two users, the venue's life cycle and the outcome sync
NextSync ==
  \/ VenueClose("k1")
  \/ \E r \in VenueResults : VenueDetermine("k1", r)
  \/ VenueFinalize("k1")
  \/ \E p \in Procs :
       \/ Fail(p)
       \/ \E u \in Users : \E b \in Positions : KalshiBetRequest(p, u, "k1", b, 100)
       \/ KalshiBetSteps(p)
       \/ SyncRequest(p)
       \/ SyncSteps(p)

SpecSync == Init /\ [][NextSync]_vars

\* the amounts of a payout request: one below the minimum, and the minimum
PayoutAmounts == {MIN_PAYOUT_TOKENS - 1, MIN_PAYOUT_TOKENS}

\* payout requests of one account beside each other and beside its bets
NextPayout ==
  \E p \in Procs :
    \/ Fail(p)
    \/ \E a \in PayoutAmounts : PayoutRefuse(p, "u1", a)
    \/ \E a \in PayoutAmounts : PayoutBegin(p, "u1", a)
    \/ PayoutSteps(p)
    \/ BetRequest(p, "u1", "m2", "yes", 100)
    \/ BetSteps(p)

SpecPayout == Init /\ [][NextPayout]_vars

\* the statuses /admin/process-payout accepts
ReviewStatuses == {"approved", "completed", "rejected"}

\* payout requests of one account and their reviews
NextReview ==
  \E p \in Procs :
    \/ Fail(p)
    \/ PayoutRequest(p, "u1", MIN_PAYOUT_TOKENS)
    \/ PayoutSteps(p)
    \/ \E i \in PayoutIds : \E s \in ReviewStatuses : ReviewRequest(p, i, s)
    \/ ReviewSteps(p)

SpecReview == Init /\ [][NextReview]_vars

\* the yesMultiplier /admin/create gives a market, in hundredths: its default, or
\* the request's (any DECIMAL(4,2), a value below 1 included)
AdminMultipliers == {ADMIN_YES_MULTIPLIER, 50}

InitMultipliers ==
  \E x \in AdminMultipliers :
    InitWith([InitPredictions EXCEPT !["m2"].yes_payout_multiplier = x])

\* everything that writes an account's counters on internal markets: purchases,
\* bets and the settlement of the admin route and of the manual helper
NextCounters ==
  \E p \in Procs :
    \/ Fail(p)
    \/ ResolverFail(p)
    \/ \E b \in Positions : BetRequest(p, "u1", "m2", b, 100)
    \/ BetSteps(p)
    \/ \E o \in Positions : ResolveRequest(p, "m2", o)
    \/ ResolveSteps(p)
    \/ \E o \in Positions : ManualResolveRequest(p, "m2", o)
    \/ ManualUpdate(p)
    \/ ProcessSteps(p)
    \/ WebhookRequest(p, "s1")
    \/ WebhookSteps(p)

SpecCounters == InitMultipliers /\ [][NextCounters]_vars

AccountSteps(p) ==
  \/ AccountSelect(p)
  \/ AccountInsert(p)
  \/ PurchaseInsert(p)
  \/ AccountFail(p)

\* Stripe delivers the event of a checkout session the purchase route has made
Delivery(p, c) == token_purchases[c].status # "none" /\ WebhookRequest(p, c)

\* u1 has an account, u2 has none yet
InitNewUser ==
  InitStore(InitPredictions, [u \in Users |-> IF u = "u1" THEN Funded ELSE NoAccount])

\* a new user's first requests: balance query, purchase and its webhook, bets
NextAccounts ==
  \E p \in Procs :
    \/ Fail(p)
    \/ BalanceRequest(p, "u2")
    \/ PurchaseRequest(p, "u2", StarterPack)
    \/ AccountSteps(p)
    \/ Delivery(p, "s2")
    \/ WebhookSteps(p)
    \/ BetRequest(p, "u2", "m2", "yes", 100)
    \/ BetSteps(p)
    \/ KalshiBetRequest(p, "u2", "k1", "yes", 100)
    \/ KalshiBetSteps(p)

SpecAccounts == InitNewUser /\ [][NextAccounts]_vars

\* an empty predictions table
InitNoMarkets == InitWith([m \in Markets |-> NoMarket])

\* the times of a create request, the trading days of the generator, and the
\* resolves_at values listed in the seed
AdminTimes == 0..MaxTime
TradingDays == {1, 2}
SeedResolves == {2, MaxTime + 2}

\* markets are created by the admin route, the generators and the seed as time passes
NextCreate ==
  \/ Tick
  \/ \E id \in Markets :
       \/ \E o \in {{}} \cup {{t} : t \in AdminTimes} :
            \E c, r \in AdminTimes : AdminCreate(id, o, c, r)
       \/ \E d \in TradingDays : createDailyPrediction(id, d)
       \/ \E d \in TradingDays : createWeeklyPrediction(id, d)
       \/ \E r \in SeedResolves : seedPredictions(id, r)

SpecCreate == InitNoMarkets /\ [][NextCreate]_vars

\* the amounts, positions and outcomes of request bodies, good and bad
RawAmounts ==
  {<<>>, <<"0">>, <<"-", "5">>, <<"a", "b", "c">>, <<"1", "2", "a", "b", "c">>,
   <<"9">>, <<"1", "0", "0">>}

RawPositions == {"", "maybe", "yes"}

\* bets and resolutions with request bodies of every kind
NextValidate ==
  \E p \in Procs :
    \/ Fail(p)
    \/ \E b \in RawPositions : \E a \in RawAmounts : PlaceBet(p, "u1", "m2", b, a)
    \/ BetSteps(p)
    \/ \E b \in RawPositions : \E a \in RawAmounts : KalshiPlaceBet(p, "u1", "k1", b, a)
    \/ KalshiBetSteps(p)
    \/ \E o \in RawPositions : \E a \in {"", "admin"} : ResolveCall(p, "m2", o, a)
    \/ ResolveSteps(p)

SpecValidate == Init /\ [][NextValidate]_vars

\* the limit of a leaderboard query
Limits == {1, 2}

\* u1 bets on an internal market and u2 on a mirrored one, both are settled,
\* and the leaderboard is read in between
NextBoard ==
  \/ VenueSettle("k1", "yes")
  \/ \E p \in Procs :
       \/ \E b \in Positions : BetRequest(p, "u1", "m2", b, 100)
       \/ BetSteps(p)
       \/ \E b \in Positions : KalshiBetRequest(p, "u2", "k1", b, 100)
       \/ KalshiBetSteps(p)
       \/ ResolveRequest(p, "m2", "yes")
       \/ ResolveSteps(p)
       \/ SyncRequest(p)
       \/ SyncSteps(p)
       \/ \E l \in Limits : Leaderboard(p, l)

SpecBoard == Init /\ [][NextBoard]_vars

\* tokens of the whale pack
WhalePack == 2500

\* whale packs bought by an account
MaxPacks == 5

\* an account after MaxPacks purchases of the whale pack
Whale ==
  [NewAccount EXCEPT !.balance = MaxPacks * WhalePack, !.total_purchased = MaxPacks * WhalePack]

InitWhales == InitStore(InitPredictions, [u \in Users |-> Whale])

\* the stakes around the bounds of a market, as sent
RawStakes ==
  {<<"9">>, <<"1", "0">>, <<"1", "0", "0", "0", "0">>, <<"1", "0", "0", "0", "1">>}

\* bets around the bounds on an internal and on a mirrored market, by accounts
\* that can cover them
NextStakes ==
  \E p \in Procs :
    \/ Fail(p)
    \/ \E u \in Users : \E a \in RawStakes : PlaceBet(p, u, "m2", "yes", a)
    \/ BetSteps(p)
    \/ \E u \in Users : \E a \in RawStakes : KalshiPlaceBet(p, u, "k1", "yes", a)
    \/ KalshiBetSteps(p)

SpecStakes == InitWhales /\ [][NextStakes]_vars

\* minutes the clock of the cache runs for
MaxMinutes == 6

Minute ==
  /\ now < MaxMinutes
  /\ now' = now + 1
  /\ result' = NoResult
  /\ UNCHANGED <<tables, venue, deliveries, reviews, cache, slots>>

\* the two cached lists read over the minutes while the venue moves on, beside
\* a mirrored bet and the outcome sync
NextCache ==
  \/ Minute
  \/ VenueSettle("k1", "yes")
  \/ \E p \in Procs :
       \/ \E key \in CacheKeys : CacheRequest(p, key)
       \/ CacheSteps(p)
       \/ KalshiBetRequest(p, "u1", "k1", "yes", 100)
       \/ KalshiBetSteps(p)
       \/ SyncRequest(p)
       \/ SyncSteps(p)

SpecCache == Init /\ [][NextCache]_vars

\* the sweep run again and again while the clock advances; a sweep that is
\* started is not made to fail for ever
NextSweeps ==
  \/ Tick
  \/ \E p \in Procs :
       \/ SweepRequest(p)
       \/ SweepOpen(p)
       \/ SweepClose(p)
       \/ SweepFail(p)

SpecSweeps ==
  /\ Init
  /\ [][NextSweeps]_vars
  /\ WF_vars(Tick)
  /\ \A p \in Procs :
       /\ WF_vars(SweepRequest(p))
       /\ SF_vars(SweepOpen(p))
       /\ SF_vars(SweepClose(p))

\* the store after u1 has staked 100 on yes on the generated market and the sweep
\* has closed both markets, at the resolution time
InitWagered ==
  InitState([m \in Markets |->
               IF m = "m1"
               THEN AddVolume([InitPredictions[m] EXCEPT !.status = "closed"], "yes", 100)
               ELSE [InitPredictions[m] EXCEPT !.status = "closed"]],
            [u \in Users |-> IF u = "u1" THEN Debit(Funded, 100) ELSE Funded],
            [k \in Users \X Markets |->
               IF k = <<"u1", "m1">> THEN NewBet("yes", 100, DEFAULT_YES_MULTIPLIER)
               ELSE NoBet],
            MaxTime)

\* a step of a pass that is under way
PassStep(p) == AutoResolveSteps(p) \/ ProcessSteps(p)

\* the automated resolver run again and again: passes keep being started, and a
\* pass under way takes its next step unless it fails
NextPasses ==
  \E p \in Procs :
    \/ Fail(p)
    \/ ResolverFail(p)
    \/ AutoResolveRequest(p)
    \/ PassStep(p)

SpecPasses ==
  /\ InitWagered
  /\ [][NextPasses]_vars
  /\ WF_vars(\E p \in Procs : AutoResolveRequest(p))
  /\ \A p \in Procs : WF_vars(PassStep(p))

\* the event of one checkout session delivered more than once, beside a bet of
\* the buyer
NextWebhook ==
  \E p \in Procs :
    \/ Deliver(p, "s1", MaxRepeats)
    \/ WebhookSteps(p)
    \/ BetRequest(p, "u1", "m2", "yes", 100)
    \/ BetSteps(p)

SpecWebhook == Init /\ [][NextWebhook]_vars

\* runs of the daily generator for the next trading days, from the cron job and
\* from the generate endpoint, on an empty predictions table
NextGenerate ==
  \E p \in Procs :
    \/ \E d \in TradingDays : generateDailyPredictions(p, d)
    \/ DailySteps(p)

SpecGenerate == InitNoMarkets /\ [][NextGenerate]_vars


\* ================================================================ claims
Settled(bet) == bet.status \in {"won", "lost"}

\* what one settlement of each of u's wagers leaves in u's account
RECURSIVE SumOver(_, _)
SumOver(S, f) ==
  IF S = {} THEN 0
  ELSE LET x == CHOOSE y \in S : TRUE IN f[x] + SumOver(S \ {x}, f)

Staked(u) == SumOver(Markets, [m \in Markets |-> user_bets[<<u, m>>].tokens_wagered])
Won(u) == SumOver(Markets, [m \in Markets |-> user_bets[<<u, m>>].tokens_won])
NetWon(u) ==
  SumOver(Markets, [m \in Markets |->
    IF user_bets[<<u, m>>].status = "won"
    THEN user_bets[<<u, m>>].potential_payout - user_bets[<<u, m>>].tokens_wagered ELSE 0])
Lost(u) ==
  SumOver(Markets, [m \in Markets |->
    IF user_bets[<<u, m>>].status = "lost" THEN user_bets[<<u, m>>].tokens_wagered ELSE 0])

SettledOnce(u) ==
  /\ user_tokens[u].balance = PopularPack - Staked(u) + Won(u)
  /\ user_tokens[u].total_won = NetWon(u)
  /\ user_tokens[u].total_lost = Lost(u)

\* C1: however many admin resolve calls hit a market (one after another, racing,
\* or again after a failed one), every wager on it is settled once: when the
\* market is resolved no wager on it is active, every account holds exactly what
\* one settlement of each of its wagers gives, and no later step changes an
\* account or a wager.
C1_ResolveIdempotent ==
  /\ [](\A m \in Markets : predictions[m].status = "resolved" =>
          \A u \in Users : user_bets[<<u, m>>].status # "active")
  /\ [](\A u \in Users : SettledOnce(u))
  /\ [][predictions["m2"].status = "resolved" => UNCHANGED <<user_tokens, user_bets>>]_vars

C1_Witness ==
  /\ predictions["m2"].status = "resolved"
  /\ user_bets[<<"u1", "m2">>].status = "won"
  /\ user_bets[<<"u2", "m2">>].status = "lost"
  /\ result.op = "resolve" /\ result.code = "AlreadyResolved"
  /\ \E p \in Procs : req[p].op = "resolve" /\ pc[p] = "res_lock"


\* slot p takes a step
Moves(p) == pc'[p] # pc[p]

\* slot p sends its response, which is then the value of result
Ends(p) == pc[p] # "idle" /\ pc'[p] = "idle"

Answers(p, code) == Ends(p) /\ result'.code = code

\* C2: a resolve call that finds the market already resolved is answered
\* AlreadyResolved (unless the store fails first) and changes no account, no
\* wager and no market row, the recorded outcome included.
C2_AlreadyResolvedNoEffect ==
  [][\A p \in Procs :
       (/\ req[p].op = "resolve"
        /\ pc[p] = "res_lock"
        /\ Moves(p)
        /\ predictions[req[p].predictionId].status = "resolved")
       => /\ Answers(p, "AlreadyResolved") \/ Answers(p, "PersistenceFailure")
          /\ UNCHANGED tables]_vars

C2_Witness ==
  /\ result = [op |-> "resolve", code |-> "AlreadyResolved", at |-> "res_lock"]
  /\ predictions["m2"].status = "resolved"
  /\ predictions["m2"].outcome = "no"
  /\ user_bets[<<"u2", "m2">>].status = "won"

\* C3: every step of a resolve call except its COMMIT, its failure at any
\* statement included, leaves every committed row as it was; and no committed
\* state shows a market with one wager settled and another still active.
C3_ResolveAllOrNothing ==
  /\ [][\A p \in Procs :
          (req[p].op = "resolve" /\ Moves(p) /\ ~Answers(p, "ok"))
          => UNCHANGED tables]_vars
  /\ [](\A m \in Markets : \A u, v \in Users :
          ~(Settled(user_bets[<<u, m>>]) /\ user_bets[<<v, m>>].status = "active"))

C3_Witness ==
  /\ result = [op |-> "resolve", code |-> "PersistenceFailure", at |-> "res_acct"]
  /\ predictions["m2"].status # "resolved"
  /\ predictions["m2"].outcome = "null"
  /\ \A u \in Users : user_bets[<<u, "m2">>].status = "active"
  /\ \A u \in Users : user_tokens[u].balance = 900

\* C8: the COMMIT of a resolve turns every wager that was active on the market
\* into won (tokens_won = potential_payout, balance + potential_payout,
\* total_won + potential_payout - tokens_wagered) when its position is the
\* outcome, and into lost (tokens_won = 0, balance unchanged, total_lost +
\* tokens_wagered) otherwise.
C8_ResolvePaysOut ==
  [][\A p \in Procs :
       (req[p].op = "resolve" /\ Answers(p, "ok"))
       => \A u \in Users :
            LET k == <<u, req[p].predictionId>>
                bet == user_bets[k]
                acct == user_tokens[u]
            IN bet.status = "active" =>
                 IF bet.position = req[p].outcome
                 THEN /\ user_bets'[k] = [bet EXCEPT !.status = "won",
                                                      !.tokens_won = bet.potential_payout]
                      /\ user_tokens'[u] =
                           [acct EXCEPT !.balance = @ + bet.potential_payout,
                                        !.total_won = @ + bet.potential_payout - bet.tokens_wagered]
                 ELSE /\ user_bets'[k] = [bet EXCEPT !.status = "lost", !.tokens_won = 0]
                      /\ user_tokens'[u] = [acct EXCEPT !.total_lost = @ + bet.tokens_wagered]]_vars

\* the scenario of the specification: stake 100 at 2.0 from 1000, resolved yes
C8_Witness ==
  /\ result = [op |-> "resolve", code |-> "ok", at |-> "res_commit"]
  /\ predictions["m2"].outcome = "yes"
  /\ user_bets[<<"u1", "m2">>] =
       [status |-> "won", position |-> "yes", tokens_wagered |-> 100,
        potential_payout |-> 200, payout_multiplier |-> 200, tokens_won |-> 200]
  /\ user_tokens["u1"] = [balance |-> 1100, total_purchased |-> 1000,
                          total_won |-> 100, total_lost |-> 0, present |-> TRUE]
  /\ user_bets[<<"u2", "m2">>].status = "lost"
  /\ user_tokens["u2"] = [balance |-> 900, total_purchased |-> 1000,
                          total_won |-> 0, total_lost |-> 100, present |-> TRUE]

\* ---------------------------------------------------------------- bets
IsBet(p) == req[p].op \in {"bet", "kbet"}

\* the committed wager of the request in slot p
Wager(p) ==
  IF req[p].op = "bet" THEN user_bets[<<req[p].email, req[p].predictionId>>]
  ELSE kalshi_bets[<<req[p].email, req[p].ticker>>]

WagerAfter(p) ==
  IF req[p].op = "bet" THEN user_bets'[<<req[p].email, req[p].predictionId>>]
  ELSE kalshi_bets'[<<req[p].email, req[p].ticker>>]

C5_BetDebitsExactlyTheStake ==
  [][\A p \in Procs : \A u \in Users :
       (IsBet(p) /\ Moves(p))
       => user_tokens'[u].balance =
            IF Answers(p, "ok") /\ u = req[p].email
            THEN user_tokens[u].balance - req[p].amount
            ELSE user_tokens[u].balance]_vars

\* 1000, a purchase of 250, two stakes of 100, a payout request of 1000, and
\* both wagers won (200 and 250): 500
C5_Witness ==
  /\ token_purchases["s1"].status = "completed"
  /\ user_bets[<<"u1", "m2">>].status = "won"
  /\ kalshi_bets[<<"u1", "k1">>].status = "won"
  /\ payout_requests[1].status = "pending"
  /\ user_tokens["u1"].balance = 500

\* C6: no committed balance is negative, and a bet or a payout request that
\* reaches its balance check asking for more than the committed balance is
\* answered InsufficientFunds (unless the store fails first).
C6_BalanceNeverNegative ==
  /\ [](\A u \in Users : user_tokens[u].balance >= 0)
  /\ [][\A p \in Procs :
          (/\ pc[p] \in {"bet_acct", "kbet_acct", "pay_acct"}
           /\ Moves(p)
           /\ req[p].amount > user_tokens[req[p].email].balance)
          => Answers(p, "InsufficientFunds") \/ Answers(p, "PersistenceFailure")]_vars

\* the whole balance is in a pending payout request and a bet has been refused
C6_Witness ==
  /\ result = [op |-> "bet", code |-> "InsufficientFunds", at |-> "bet_acct"]
  /\ payout_requests[1].status = "pending"
  /\ user_tokens["u1"].balance = 0

TokensWonMatches(bet) ==
  /\ bet.status = "won" => bet.tokens_won = bet.potential_payout
  /\ bet.status \in {"lost", "active"} => bet.tokens_won = 0

\* C9: every committed wager, internal or mirrored, that is won has tokens_won
\* equal to its potential_payout, and every wager that is lost or still active
\* has tokens_won = 0, whichever of the admin route, processBetsForPrediction
\* and the outcome sync settled it.
C9_TokensWonIsThePayout ==
  /\ \A k \in Users \X Markets : TokensWonMatches(user_bets[k])
  /\ \A k \in Users \X Tickers : TokensWonMatches(kalshi_bets[k])

\* the manual helper has settled a winner and a loser and the sync a mirrored wager
C9_Witness ==
  /\ result = [op |-> "manual", code |-> "ok", at |-> "pb_commit"]
  /\ user_bets[<<"u1", "m2">>].status = "won"
  /\ user_bets[<<"u1", "m2">>].tokens_won = 200
  /\ user_bets[<<"u2", "m2">>].status = "lost"
  /\ user_bets[<<"u2", "m2">>].tokens_won = 0
  /\ kalshi_bets[<<"u1", "k1">>].status = "won"
  /\ kalshi_bets[<<"u1", "k1">>].tokens_won = 250

\* ----------------------------------------------------------- life cycle
\* the status changes the state machine of the specification has
StatusChanges ==
  {<<"upcoming", "open">>, <<"open", "closed">>, <<"closed", "resolved">>,
   <<"open", "resolved">>}

\* C10: every change of a market's status is upcoming -> open, open -> closed,
\* closed -> resolved or open -> resolved, the last by the admin route or the
\* manual helper only.
C10_StatusMovesForward ==
  [][\A m \in Markets :
       predictions'[m].status # predictions[m].status
       => /\ <<predictions[m].status, predictions'[m].status>> \in StatusChanges
          /\ (predictions[m].status = "open" /\ predictions'[m].status = "resolved")
             => \E p \in Procs : req[p].op \in {"resolve", "manual"} /\ Moves(p)]_vars

\* ---------------------------------------------------------------- sweep
\* what a sweep statement run with the captured time t makes of a market row
Opened(row, t) ==
  IF row.status = "upcoming" /\ row.opens_at <= t /\ t < row.closes_at
  THEN [row EXCEPT !.status = "open"] ELSE row

Closed(row, t) ==
  IF row.status = "open" /\ t >= row.closes_at
  THEN [row EXCEPT !.status = "closed"] ELSE row

\* C11: the first statement of a sweep that captured time t opens exactly the
\* upcoming markets with opens_at <= t < closes_at, the second closes exactly the
\* open markets with t >= closes_at; neither changes another market, another
\* field or another table, and when the sweep returns a further sweep at t would
\* find nothing to open or to close.
C11_SweepMovesExactlyTheDue ==
  [][\A p \in Procs :
       (req[p].op = "sweep" /\ Moves(p) /\ ~Answers(p, "PersistenceFailure"))
       => /\ UNCHANGED <<user_tokens, user_bets, kalshi_bets, payout_requests,
                         token_purchases>>
          /\ pc[p] = "sweep_open"
             => predictions' = [m \in Markets |-> Opened(predictions[m], req[p].at)]
          /\ pc[p] = "sweep_close"
             => /\ predictions' = [m \in Markets |-> Closed(predictions[m], req[p].at)]
                /\ \A m \in Markets :
                     /\ Opened(predictions'[m], req[p].at) = predictions'[m]
                     /\ Closed(predictions'[m], req[p].at) = predictions'[m]]_vars

\* two sweeps have run: the generated market was opened by the first and both
\* markets are closed by the one that has just returned
C11_Witness ==
  /\ result = [op |-> "sweep", code |-> "ok", at |-> "sweep_close"]
  /\ predictions["m1"].status = "closed"
  /\ predictions["m2"].status = "closed"
  /\ now = predictions["m1"].closes_at

\* ------------------------------------------------------- betting window
\* C12: a bet passes the market check only on a market that is open with
\* now < closes_at, any other bet is answered MarketClosed (unless the store
\* fails first) and changes nothing, and the market is still open when an
\* accepted bet commits.
C12_BetOnlyBeforeClose ==
  [][\A p \in Procs :
       req[p].op = "bet" =>
         LET m == req[p].predictionId
             inTime == predictions[m].status = "open" /\ now < predictions[m].closes_at
         IN /\ (pc[p] = "bet_lock" /\ Moves(p) /\ ~inTime)
               => /\ Answers(p, "MarketClosed") \/ Answers(p, "PersistenceFailure")
                  /\ UNCHANGED tables
            /\ Answers(p, "ok") => predictions[m].status = "open"]_vars

\* --------------------------------------------------------------- bounds
\* C13: on an open market a bet passes the bounds check exactly when
\* min_bet <= amount <= max_bet; a bet outside is answered OutOfBounds and
\* changes nothing; and a bet inside the bounds, the bounds themselves included,
\* whose user has no wager on the market and a sufficient balance is never
\* refused (it ends only in its COMMIT or in a failure of the store).
C13_BoundsAreInclusive ==
  [][\A p \in Procs :
       (req[p].op = "bet" /\ Moves(p)) =>
         LET m == req[p].predictionId
             a == req[p].amount
             inside == predictions[m].min_bet <= a /\ a <= predictions[m].max_bet
             open == predictions[m].status = "open" /\ now <= predictions[m].closes_at
         IN /\ (pc[p] = "bet_lock" /\ open /\ ~inside)
               => /\ Answers(p, "OutOfBounds") \/ Answers(p, "PersistenceFailure")
                  /\ UNCHANGED tables
            /\ Answers(p, "OutOfBounds") => ~inside
            /\ (/\ Ends(p) /\ open /\ inside
                /\ user_bets[<<req[p].email, m>>].status = "none"
                /\ user_tokens[req[p].email].balance >= a)
               => Answers(p, "ok") \/ Answers(p, "PersistenceFailure")]_vars

\* one user has staked exactly max_bet and the other exactly min_bet
C13_Witness ==
  /\ result = [op |-> "bet", code |-> "ok", at |-> "bet_commit"]
  /\ user_bets[<<"u1", "m2">>].status = "active"
  /\ user_bets[<<"u1", "m2">>].tokens_wagered = predictions["m2"].max_bet
  /\ user_bets[<<"u2", "m2">>].status = "active"
  /\ user_bets[<<"u2", "m2">>].tokens_wagered = predictions["m2"].min_bet

\* ---------------------------------------------------------------- locks
\* the row locks of which the next statement of slot p needs one
Needs(p) ==
  LET u == req[p].email
      m == req[p].predictionId
  IN CASE pc[p] \in {"bet_lock", "res_lock", "man_update", "auto_update"} -> {<<"pred", m>>}
       [] pc[p] \in {"bet_acct", "kbet_acct", "pay_acct"} -> {<<"acct", u>>}
       [] pc[p] = "bet_insert" -> {<<"bet", u, m>>}
       [] pc[p] \in {"res_bet", "pb_bet"} -> {<<"bet", v, m>> : v \in rows[p]}
       [] pc[p] \in {"res_acct", "pb_acct"} -> {<<"acct", cur[p]>>}
       [] OTHER -> {}

\* slot p cannot go on before slot q commits or rolls back
WaitsFor(p, q) ==
  /\ Needs(p) # {}
  /\ \A L \in Needs(p) : ~Free(p, L)
  /\ \E L \in Needs(p) : L \in locks[q]

Deadlock == \E p, q \in Procs : p # q /\ WaitsFor(p, q) /\ WaitsFor(q, p)

\* C14: no state has two transactions of bets and resolutions each waiting for a
\* row lock the other holds.
C14_NoDeadlock == ~Deadlock

\* ---------------------------------------------------------------- oracle
\* the quote a resolution was computed from has both prices
Complete(r) == r.open \notin {"undefined", "null"} /\ r.close \notin {"undefined", "null"}

\* C15: the automated resolver marks a market resolved only from a quote that has
\* both an open and a close price; a pass skips the market otherwise.
C15_NoResolveOnIncompleteData ==
  [][\A p \in Procs :
       (pc[p] = "auto_update" /\ Moves(p) /\ pc'[p] = "pb_select"
          /\ predictions'[req[p].predictionId].status = "resolved")
         => Complete(req[p])]_vars

\* ------------------------------------------------------- paid at most once
Payouts(u) == SumOver(Markets, [m \in Markets |-> user_bets[<<u, m>>].potential_payout])

\* C16: whatever resolvers run side by side, no account is credited more than the
\* payout of each of its wagers once, and no account's total_lost rises by more
\* than each of its stakes once.
C16_PaidAtMostOnce ==
  \A u \in Users :
    /\ user_tokens[u].balance <= PopularPack - Staked(u) + Payouts(u)
    /\ user_tokens[u].total_lost <= Staked(u)
    /\ user_tokens[u].total_won <= Payouts(u) - Staked(u)

\* ------------------------------------------------- resolved means settled
\* C17: once every resolver has returned, its failure while paying included, no
\* market is resolved with a wager on it still active (the claim asks it of every
\* committed state; this asks it only of the states no call is running in).
C17_ResolvedMeansSettled ==
  (\A p \in Procs : pc[p] = "idle") =>
    \A m \in Markets :
      predictions[m].status = "resolved" =>
        \A u \in Users : user_bets[<<u, m>>].status # "active"

\* ------------------------------------------------------------ outcome sync
KStaked(u) == SumOver(Tickers, [k \in Tickers |-> kalshi_bets[<<u, k>>].tokens_wagered])
KWon(u) == SumOver(Tickers, [k \in Tickers |-> kalshi_bets[<<u, k>>].tokens_won])
KLost(u) ==
  SumOver(Tickers, [k \in Tickers |->
    IF kalshi_bets[<<u, k>>].status = "lost" THEN kalshi_bets[<<u, k>>].tokens_wagered ELSE 0])

\* C18: when no sync and no bet is running, every account holds its purchases less
\* its mirrored stakes plus what its settled mirrored wagers won, once, and its
\* total_lost is the stakes of its lost wagers, once: no wager is credited twice
\* and none is marked won or lost with its account left as it was.
C18_SyncCreditsOnce ==
  (\A p \in Procs : pc[p] = "idle") =>
    \A u \in Users :
      /\ user_tokens[u].balance = PopularPack - KStaked(u) + KWon(u)
      /\ user_tokens[u].total_lost = KLost(u)


\* C19: the account UPDATE of the outcome sync, for a venue result of yes or no,
\* writes what the Settlement Engine's resolve writes for the same wager and outcome.
C19_SyncSettlesLikeResolve ==
  [][\A p \in Procs :
       (pc[p] = "sync_acct" /\ Moves(p) /\ req[p].outcome \in Positions
          /\ user_tokens' # user_tokens)
       => user_tokens'[cur[p]] =
            SettleAccount(user_tokens[cur[p]], kalshi_bets[<<cur[p], req[p].ticker>>],
                          req[p].outcome)]_vars

\* C20: the sync changes a mirrored wager or an account only when the venue
\* reports the market finalized with the result yes or no.
C20_SyncOnlyFinalYesNo ==
  [][\A p \in Procs :
       (req[p].op = "sync" /\ Moves(p) /\ <<kalshi_bets, user_tokens>>' # <<kalshi_bets, user_tokens>>)
       => /\ venue[req[p].ticker].status = "finalized"
          /\ req[p].outcome \in Positions]_vars


\* ---------------------------------------------------------- payout requests
\* the payout_requests row the step inserts, if it inserts exactly one
Inserted(i) ==
  /\ payout_requests[i].status = "none"
  /\ \A j \in PayoutIds \ {i} : payout_requests'[j] = payout_requests[j]

\* C21: a payout request changes committed rows only in its COMMIT step, which
\* lowers the account's balance by the amount and inserts one pending request of
\* that amount, and nothing else; a request below the minimum is refused with
\* nothing changed, and one that finds the balance below the amount ends there.
C21_PayoutRequestAtomic ==
  [][/\ (result'.op = "payout" /\ result'.code = "ValidationError") => UNCHANGED tables
     /\ \A p \in Procs :
          req[p].op = "payout" =>
            LET u == req[p].email
                a == req[p].amount
            IN /\ (Moves(p) /\ ~Answers(p, "ok")) => UNCHANGED tables
               /\ (pc[p] = "pay_acct" /\ Moves(p) /\ user_tokens[u].balance < a)
                    => Answers(p, "InsufficientFunds") \/ Answers(p, "PersistenceFailure")
               /\ Answers(p, "ok") =>
                    /\ user_tokens' = [user_tokens EXCEPT ![u].balance = @ - a]
                    /\ \E i \in PayoutIds :
                         /\ Inserted(i)
                         /\ payout_requests'[i] = [status |-> "pending", user_email |-> u,
                                                   tokens_amount |-> a]
                    /\ UNCHANGED <<predictions, user_bets, kalshi_bets, token_purchases>>]_vars

\* one request has been granted, and a second one, started beside it, found the
\* balance gone
C21_Witness ==
  /\ result = [op |-> "payout", code |-> "InsufficientFunds", at |-> "pay_acct"]
  /\ \E i \in PayoutIds : payout_requests[i].status = "pending"
  /\ user_tokens["u1"].balance = 0


\* ------------------------------------------------------------ payout reviews
\* the review of slot p has run its credit statement
Credited(p) == pc[p] = "rev_update" /\ req[p].status = "rejected" /\ req[p].email # "-"

\* the SELECT of a rejecting review found no row: the request was committed later
Missed(p) == pc[p] = "rev_update" /\ req[p].status = "rejected" /\ req[p].email = "-"

\* C22: a review of a request it has found ends having credited the account if
\* and only if it has set the status (a rejection does both or neither), and a
\* review that approves or completes changes no account in any of its steps.
C22_RejectCreditsAndMarks ==
  [][\A p \in Procs :
       (req[p].op = "review" /\ payout_requests[req[p].payoutId].status # "none"
          /\ ~Missed(p)) =>
         /\ (req[p].status = "rejected" /\ Ends(p)) =>
              /\ Answers(p, "ok") =>
                   Credited(p) /\ payout_requests'[req[p].payoutId].status = "rejected"
              /\ ~Answers(p, "ok") => ~Credited(p)
         /\ (req[p].status # "rejected" /\ Moves(p)) => UNCHANGED user_tokens]_vars


\* ------------------------------------------------------------------ counters
\* C23: no step lowers total_purchased, total_won or total_lost of an account.
C23_CountersNeverDecrease ==
  [][\A u \in Users :
       /\ user_tokens'[u].total_purchased >= user_tokens[u].total_purchased
       /\ user_tokens'[u].total_won >= user_tokens[u].total_won
       /\ user_tokens'[u].total_lost >= user_tokens[u].total_lost]_vars


\* ------------------------------------------------------------------ accounts
\* the request of slot p is one that touches the account of its user: a balance
\* query, a purchase, or a bet that has come as far as reading the account
Touches(p) ==
  \/ req[p].op \in {"balance", "purchase"}
  \/ req[p].op = "bet" /\ pc[p] = "bet_acct"
  \/ req[p].op = "kbet" /\ pc[p] = "kbet_acct"

\* C24: when a balance query, a purchase or a bet that reads the account ends
\* without a store failure, the user's account exists; a new account has balance 0
\* and zero counters; and no step removes an account.
C24_AccountOnFirstTouch ==
  [][/\ \A p \in Procs :
          (Touches(p) /\ Ends(p) /\ ~Answers(p, "PersistenceFailure"))
            => user_tokens'[req[p].email].present
     /\ \A u \in Users :
          /\ user_tokens[u].present => user_tokens'[u].present
          /\ (~user_tokens[u].present /\ user_tokens'[u].present)
               => user_tokens'[u] = NewAccount]_vars


\* ------------------------------------------------------------- market times
\* C25: every market in the table has opens_at <= closes_at <= resolves_at.
C25_TimesAreOrdered ==
  \A m \in Markets :
    predictions[m].status # "none" =>
      /\ predictions[m].opens_at <= predictions[m].closes_at
      /\ predictions[m].closes_at <= predictions[m].resolves_at


\* ---------------------------------------------------------- terminal wagers
\* slot p runs the wager UPDATE of a settlement loop; the row is cur'[p]
Settles(p) ==
  /\ pc[p] \in {"res_bet", "pb_bet", "sync_bet"}
  /\ pc'[p] \in {"res_acct", "pb_acct", "sync_acct"}

\* the committed wager that UPDATE is applied to
Target(p) ==
  IF pc[p] = "sync_bet"
  THEN kalshi_bets[<<cur'[p], req[p].ticker>>]
  ELSE user_bets[<<cur'[p], req[p].predictionId>>]

\* C26: a wager that is won or lost keeps its row as it is, and no settlement
\* trigger runs its wager UPDATE (and with it its account UPDATE) on a wager that
\* is not active.
C26_TerminalWagersStay ==
  [][/\ \A k \in Users \X Markets :
          Settled(user_bets[k]) => user_bets'[k] = user_bets[k]
     /\ \A k \in Users \X Tickers :
          Settled(kalshi_bets[k]) => kalshi_bets'[k] = kalshi_bets[k]
     /\ \A p \in Procs : Settles(p) => Target(p).status = "active"]_vars


\* ---------------------------------------------------------------- validation
\* the string is a number: an optional sign and then digits only
Numeric(s) == Unsigned(s) # <<>> /\ DigitPrefix(Unsigned(s)) = Unsigned(s)

\* C27: no bet with a position other than yes or no, or with an amount that is
\* not a number or not positive, and no resolve with an outcome other than yes or
\* no gets past the checks made before the transaction opens.
C27_MalformedNeverStarts ==
  \A p \in Procs :
    /\ IsBet(p) => /\ req[p].position \in Positions
                   /\ Numeric(req[p].raw)
                   /\ parseInt(req[p].raw) > 0
    /\ req[p].op = "resolve" => req[p].outcome \in Positions


\* ---------------------------------------------------------------- leaderboard
\* the accounts with a settled wager, on an internal or on a mirrored market
HasSettled(u) ==
  \/ \E m \in Markets : Settled(user_bets[<<u, m>>])
  \/ \E k \in Tickers : Settled(kalshi_bets[<<u, k>>])

\* C28: a leaderboard answer has at most limit entries, only of accounts with a
\* settled wager, in descending order of total_won - total_lost with rank i on
\* the i-th entry, and with room on the board every account with a settled wager
\* on an internal or on a mirrored market is listed.
C28_LeaderboardRanks ==
  result.op = "leaderboard" =>
    LET board == result.leaderboard
    IN /\ \A i \in DOMAIN board :
            /\ board[i].rank = i
            /\ HasSettled(board[i].user_email)
            /\ board[i].net_profit = net_profit(board[i].user_email)
            /\ \A j \in DOMAIN board : i < j => board[i].net_profit >= board[j].net_profit
       /\ \E l \in Limits :
            /\ Len(board) <= l
            /\ Len(board) < l =>
                 \A u \in Users : HasSettled(u) => \E i \in DOMAIN board : board[i].user_email = u


\* ---------------------------------------------------------- potential payout
\* C29: every wager, on an internal or on a mirrored market, has
\* potential_payout = floor(tokens_wagered x payout_multiplier) for the
\* payout_multiplier stored with it.
C29_PayoutIsFloorOfStored ==
  /\ \A k \in Users \X Markets :
       user_bets[k].status # "none" =>
         user_bets[k].potential_payout
           = Floor(user_bets[k].tokens_wagered, user_bets[k].payout_multiplier)
  /\ \A k \in Users \X Tickers :
       kalshi_bets[k].status # "none" =>
         kalshi_bets[k].potential_payout
           = Floor(kalshi_bets[k].tokens_wagered, kalshi_bets[k].payout_multiplier)


\* --------------------------------------------------------------------- stakes
\* C30: every wager has a positive tokens_wagered within the min_bet and max_bet
\* of its market, 10 and 10000 on a mirrored market.
C30_StakesWithinBounds ==
  /\ \A k \in Users \X Markets :
       user_bets[k].status # "none" =>
         /\ user_bets[k].tokens_wagered > 0
         /\ user_bets[k].tokens_wagered >= predictions[k[2]].min_bet
         /\ user_bets[k].tokens_wagered <= predictions[k[2]].max_bet
  /\ \A k \in Users \X Tickers :
       kalshi_bets[k].status # "none" =>
         /\ kalshi_bets[k].tokens_wagered >= KALSHI_MIN_BET
         /\ kalshi_bets[k].tokens_wagered <= KALSHI_MAX_BET


\* ------------------------------------------------------- automated resolver
\* C31: a step of the automated resolver changes a market only if it is closed,
\* has no outcome, is past resolves_at and has a resolution rule for its
\* subcategory, and changes wagers only on the market it is resolving.
C31_AutoResolvesOnlyReady ==
  [][\A p \in Procs :
       (req[p].op = "auto" /\ Moves(p)) =>
         /\ \A m \in Markets :
              predictions'[m] # predictions[m] =>
                Ready(predictions[m], now) /\ HasResolver(predictions[m])
         /\ \A k \in Users \X Markets :
              user_bets'[k] # user_bets[k] =>
                k[2] = req[p].predictionId /\ HasResolver(predictions[k[2]])]_vars


\* ---------------------------------------------------------------------- cache
\* the cached list of the key is younger than the time-to-live
Young(key) == cache[key].present /\ now - cache[key].time < CACHE_TTL

\* C32: a list request is answered from the cache, with no outbound call, exactly
\* when the entry of its key is younger than the time-to-live; otherwise it
\* fetches, a fetch that succeeds replaces the entry of its key with the venue's
\* answer and the time of the request, a fetch that fails and every other step
\* leave the cache as it is, and a mirrored bet and the outcome sync decide on the
\* venue's own answer.
C32_CacheWithinTtl ==
  [][/\ result'.code = "cached" =>
          /\ pc' = pc
          /\ cache' = cache
          /\ \E key \in CacheKeys :
               /\ Young(key)
               /\ result'.markets = cache[key].markets
               /\ result'.event = cache[key].event
     /\ \A p \in Procs :
          /\ (pc[p] = "idle" /\ pc'[p] \in {"list_markets", "list_event"}) =>
               ~Young(req'[p].ticker) /\ req'[p].at = now
          /\ (pc[p] = "list_markets" /\ pc'[p] = "idle" /\ result'.code = "ok") =>
               /\ cache'[req[p].ticker].present
               /\ cache'[req[p].ticker].time = req[p].at
               /\ cache'[req[p].ticker].markets = VenueMarkets(req[p].ticker)
               /\ \A key \in CacheKeys \ {req[p].ticker} : cache'[key] = cache[key]
          /\ (pc[p] = "kbet_fetch" /\ Moves(p)) =>
               (pc'[p] = "kbet_acct" <=> venue[req[p].ticker].status \in {"open", "active"})
          /\ (pc[p] = "sync_fetch" /\ pc'[p] = "sync_bet") =>
               /\ req'[p].outcome = venue[req'[p].ticker].result
               /\ VenueSettled(venue[req'[p].ticker])
     /\ cache' # cache =>
          \E p \in Procs : pc[p] = "list_markets" /\ pc'[p] = "idle" /\ result'.code = "ok"]_vars

\* a list is answered from a cache that no longer matches the venue, in the last
\* minute of its life
C32_Witness ==
  /\ result.code = "cached"
  /\ \E key \in CacheKeys :
       /\ now - cache[key].time = CACHE_TTL - 1
       /\ result.markets = cache[key].markets
       /\ result.markets # VenueMarkets(key)


\* -------------------------------------------------------------------- outcome
\* C33: a market has an outcome exactly when it is resolved, an outcome once set
\* never changes, and a settled wager is won exactly when its position is the
\* outcome of its market.
C33_OutcomeIsFinal ==
  [][\A m \in Markets :
       /\ predictions[m].outcome # "null" =>
            predictions'[m].outcome = predictions[m].outcome
       /\ predictions'[m].outcome # "null" <=> predictions'[m].status = "resolved"
       /\ \A u \in Users :
            Settled(user_bets'[<<u, m>>]) =>
              (user_bets'[<<u, m>>].status = "won"
                 <=> user_bets'[<<u, m>>].position = predictions'[m].outcome)]_vars


\* -------------------------------------------------------------- credited back
\* tokens the payout requests of u took from the balance
Requested(u) ==
  SumOver({i \in PayoutIds : payout_requests[i].status # "none"
                               /\ payout_requests[i].user_email = u},
          [i \in PayoutIds |-> payout_requests[i].tokens_amount])

\* tokens the reviews gave back to u (no bet is placed beside them)
CreditedBack(u) == user_tokens[u].balance + Requested(u) - user_tokens[u].total_purchased

\* C34: the reviews never give back more than the payout requests took, and
\* give nothing back for a request that is approved, completed or absent.
C34_CreditedBackAtMostOnce ==
  [][/\ \A u \in Users : CreditedBack(u)' <= Requested(u)'
     /\ \A p \in Procs :
          (pc[p] = "rev_credit" /\ user_tokens' # user_tokens) =>
            payout_requests[req[p].payoutId].status \notin {"approved", "completed", "none"}]_vars


\* --------------------------------------------------------------- conservation
\* tokens held by the payout requests of u that are not rejected
Held(u) ==
  SumOver({i \in PayoutIds : payout_requests[i].status \notin {"none", "rejected"}
                               /\ payout_requests[i].user_email = u},
          [i \in PayoutIds |-> payout_requests[i].tokens_amount])

\* C35: in every committed state the balance of an account is its purchases, less
\* the stakes of its wagers on internal and mirrored markets, plus the tokens won
\* by them, less the amounts of its payout requests that are not rejected.
C35_TokensConserved ==
  \A u \in Users :
    user_tokens[u].present =>
      user_tokens[u].balance
        = user_tokens[u].total_purchased - Staked(u) - KStaked(u) + Won(u) + KWon(u) - Held(u)


\* --------------------------------------------------------------------- volume
\* the stakes of the wagers on m with the given position
Volume(m, position) ==
  SumOver(Users, [u \in Users |->
    IF user_bets[<<u, m>>].status # "none" /\ user_bets[<<u, m>>].position = position
    THEN user_bets[<<u, m>>].tokens_wagered ELSE 0])

Bettors(m) == {u \in Users : user_bets[<<u, m>>].status # "none"}

\* C36: in every committed state the yes and no totals of a market are the sums
\* of the stakes of its yes and no wagers, and total_bettors is the number of its
\* wagers.
C36_VolumeMatchesWagers ==
  \A m \in Markets :
    /\ predictions[m].total_yes_tokens = Volume(m, "yes")
    /\ predictions[m].total_no_tokens = Volume(m, "no")
    /\ predictions[m].total_bettors = Cardinality(Bettors(m))

\* a resolved market with a settled wager on each side
C36_Witness ==
  /\ predictions["m2"].status = "resolved"
  /\ predictions["m2"].total_yes_tokens = 100
  /\ predictions["m2"].total_no_tokens = 100
  /\ predictions["m2"].total_bettors = 2
  /\ \A u \in Users : Settled(user_bets[<<u, "m2">>])


\* --------------------------------------------------------------- closing time
\* C37: under repeated sweeps a market whose closes_at has passed is eventually
\* closed or resolved.
C37_PastClosingGetsClosed ==
  \A m \in Markets :
    (predictions[m].closes_at <= now) ~> (predictions[m].status \in {"closed", "resolved"})


\* ------------------------------------------------------- settled in the end
\* C38: under repeated automated passes an active wager on a resolved market is
\* eventually won or lost.
C38_ResolvedGetsSettled ==
  \A k \in Users \X Markets :
    (predictions[k[2]].status = "resolved" /\ user_bets[k].status = "active")
      ~> Settled(user_bets[k])


\* ----------------------------------------------------------------- purchases
\* tokens of the completed checkout sessions of u
Bought(u) ==
  SumOver({c \in Sessions : token_purchases[c].status = "completed"
                              /\ token_purchases[c].user_email = u},
          [c \in Sessions |-> token_purchases[c].tokens_amount])

\* C39: total_purchased of an account never exceeds what it had at the start plus
\* the token amount of each of its completed checkout sessions once.
C39_PurchaseCreditedOnce ==
  \A u \in Users : user_tokens[u].total_purchased <= Funded.total_purchased + Bought(u)


\* -------------------------------------------------- the daily generator
DailyMarket(row) == row.status # "none" /\ row.subcategory = "close_green"

\* C40: however the runs of the daily generator interleave, the table never
\* holds two daily close_green markets of one ticker that resolve on the same
\* day, and every row a run inserts has status upcoming.
C40_OneDailyMarketPerTickerAndDay ==
  /\ \A m, n \in Markets :
       (/\ DailyMarket(predictions[m]) /\ DailyMarket(predictions[n])
        /\ predictions[m].ticker = predictions[n].ticker
        /\ DATE(predictions[m].resolves_at) = DATE(predictions[n].resolves_at))
       => m = n
  /\ \A m \in Markets : DailyMarket(predictions[m]) => predictions[m].status = "upcoming"

====
